---- MODULE Spec2Model ----
(***************************************************************************)
(* Model of the Cherry Servers Ansible collection: one module run          *)
(* (server, storage, floating_ip, project, sshkey) against the remote API. *)
(*                                                                         *)
(* A run is a sequence of HTTP requests.  Every action below performs the  *)
(* code of one handler up to and including one request and the handling of *)
(* its response; the remote answers every request either with the status   *)
(* the API gives on success or with an error status.  generate_password,   *)
(* send_request and the inventory plugin's parse are called on their own.  *)
(*                                                                         *)
(* Python values are modelled as string tokens: None is "None", booleans   *)
(* are "True"/"False", ids are "1", "2", ...; Optional[dict] is a sequence *)
(* of at most one record; a dict with a variable key set (a request        *)
(* payload) is a function whose DOMAIN is the key set.                     *)
(***************************************************************************)
EXTENDS Integers, Sequences, FiniteSets, TLC

VARIABLES
    mod,          \* which module's run_module()/run() is executing
    task,         \* the options the caller set in the task ("None" = not set)
    check_mode,   \* module.check_mode
    remote,       \* the remote API's resources of the module's type (raw form)
    pc,           \* position of the run in the module's code
    res,          \* the handler's local resource (server, storage, fip, ...)
    req,          \* the handler's pending request payloads
    waited,       \* wait_for_active's local server
    time_passed,  \* wait_for_active's local counter
    failures,     \* sshkey.delete_keys' list of failed deletions
    gathered,     \* an info module's list r of the resources that pass its filter
    returned,     \* the value a function that is called on its own returns
    inv_cache,    \* the inventory plugin's self._cache[cache_key] (Optional)
    cache_ops,    \* the reads and writes of the cache, in order
    log,          \* requests sent in this run, in order, with their status
    outcome,      \* "running", "exit" (exit_json), "fail" (fail_json), "crash"
    msg,          \* which fail_json ended the run
    changed,      \* the changed flag handed to exit_json / fail_json
    reported,     \* the resource handed to exit_json
    planned,      \* the operations the diff found necessary
    run,          \* 1 for the first run of the task, 2 for the re-run
    prev          \* outcome, changed flag and operations of the first run

vars == <<mod, task, check_mode, remote, pc, res, req, waited, time_passed,
          failures, gathered, returned, inv_cache, cache_ops, log,
          outcome, msg, changed, reported, planned, run, prev>>

----------------------------------------------------------------------------
(* Bounds *)

MaxIntervals == 3      \* active_timeout ranges over 10, 20, ..., 10 * MaxIntervals
MaxRemote == 2         \* at most this many remote resources match an identity
MaxStream == 3         \* the random generator's stream repeats after this many draws

(* Program constants *)

POLL_INTERVAL == 10

----------------------------------------------------------------------------
(* Python values *)

None == "None"

\* Python truthiness of a scalar: None, 0 and "" are falsy.
Truthy(v) == v \notin {"None", "0", "", "False"}

Opt(r) == <<r>>
Nothing == << >>
IsSome(o) == Len(o) > 0
Get(o) == o[1]

Last(s) == s[Len(s)]

\* dict restricted to the keys for which a condition holds
Dict(keys, val(_)) == [k \in keys |-> val(k)]
Merge(d1, d2) == [k \in DOMAIN d1 \cup DOMAIN d2 |-> IF k \in DOMAIN d2 THEN d2[k] ELSE d1[k]]
NoReq == [k \in {} |-> None]

----------------------------------------------------------------------------
(* Requests and the log *)

Mutating == {"POST", "PUT", "DELETE"}

Request(method, path, id, payload, status) ==
    [method |-> method, path |-> path, id |-> id, payload |-> payload, status |-> status]

IsMutating(r) == r.method \in Mutating
MutatingLog == SelectSeq(log, IsMutating)

\* client.send_request: a status >= 400 is returned with the error message,
\* a status that is neither 2xx nor >= 400 fails the module inside the client.
ClientFails(status) == status < 400 /\ ~(200 <= status /\ status < 300)


----------------------------------------------------------------------------
(* The local state of a run and the ways a run ends *)

Cur == [pc |-> pc, res |-> res, req |-> req, planned |-> planned,
        outcome |-> outcome, msg |-> msg, changed |-> changed,
        reported |-> reported, waited |-> waited,
        time_passed |-> time_passed, failures |-> failures, gathered |-> gathered,
        returned |-> returned, inv_cache |-> inv_cache, cache_ops |-> cache_ops]

\* module.exit_json(changed=ch, <name>=rep)
exit_json(st, ch, rep) ==
    [st EXCEPT !.pc = "done", !.outcome = "exit", !.changed = ch, !.reported = rep]

\* module.fail_json(msg=m)
fail_json(st, m) ==
    [st EXCEPT !.pc = "done", !.outcome = "fail", !.msg = m]

\* an uncaught Python exception (subscripting None, KeyError) ends the run
Raise(st, m) ==
    [st EXCEPT !.pc = "done", !.outcome = "crash", !.msg = m]

Goto(st, p) == [st EXCEPT !.pc = p]

Apply(st) ==
    /\ pc' = st.pc
    /\ res' = st.res
    /\ req' = st.req
    /\ planned' = st.planned
    /\ outcome' = st.outcome
    /\ msg' = st.msg
    /\ changed' = st.changed
    /\ reported' = st.reported
    /\ waited' = st.waited
    /\ time_passed' = st.time_passed
    /\ failures' = st.failures
    /\ gathered' = st.gathered
    /\ returned' = st.returned
    /\ inv_cache' = st.inv_cache
    /\ cache_ops' = st.cache_ops

Terminal == outcome # "running"

----------------------------------------------------------------------------
(* The remote API.  An answer is a status, a decoded body (Optional) and   *)
(* the remote state after the request.                                     *)

Answer(status, body, rem) == [status |-> status, body |-> body, remote |-> rem]

ApiError == Answer(500, Nothing, remote)

Ids == {ToString(i) : i \in 1..(MaxRemote + 2)}

Find(id) == SelectSeq(remote, LAMBDA r : r.id = id)
Exists(id) == Len(Find(id)) > 0
Without(id) == SelectSeq(remote, LAMBDA r : r.id # id)
Replace(new) == [i \in 1..Len(remote) |-> IF remote[i].id = new.id THEN new ELSE remote[i]]
FreshId == CHOOSE i \in Ids : ~Exists(i)

\* a request is sent, answered, logged, and its answer handled
Send(method, path, id, payload, answers, handler(_)) ==
    \E a \in answers :
        /\ log' = Append(log, Request(method, path, id, payload, a.status))
        /\ remote' = a.remote
        /\ Apply(IF ClientFails(a.status)
                 THEN fail_json(Cur, "transport error")
                 ELSE handler(a))

\* GET <type>/{id}
ApiGetById(id) ==
    IF Exists(id)
    THEN {Answer(200, Opt(Find(id)[1]), remote), ApiError}
    ELSE {Answer(404, Nothing, remote), ApiError}

\* DELETE <type>/{id}
ApiDelete(id) ==
    IF Exists(id)
    THEN {Answer(204, Nothing, Without(id)), ApiError}
    ELSE {Answer(404, Nothing, remote)}


\* a step of a handler that sends nothing
NoSend(st) ==
    /\ log' = log
    /\ remote' = remote
    /\ Apply(st)

----------------------------------------------------------------------------
(* Module options: argument_spec defaults applied to the task *)

Default(v, d) == IF v = None THEN d ELSE v

\* server.get_module_args
server_module_args(t) ==
    [t EXCEPT !.state = Default(@, "active"),
              !.allow_reinstall = Default(@, "False")]

----------------------------------------------------------------------------
(* CherryServersClient.__init__ / _validate_auth_token *)

ApiGetUser == {Answer(200, Nothing, remote), Answer(401, Nothing, remote),
               Answer(-1, Nothing, remote)}

validate_auth_token_done(st, a, next) ==
    IF a.status # 200
    THEN fail_json(st, "Failed to validate auth token.")
    ELSE Goto(st, next)


----------------------------------------------------------------------------
(* modules/server.py *)

\* the API's full image name for an image slug, and the key ids of a key list
ApiImageName(slug) == IF slug = None THEN "unknown" ELSE "name of " \o slug
ApiKeyIds(keys) == IF keys = None THEN "[]" ELSE IF keys = "['1']" THEN "[1]" ELSE "[2]"

\* normalizers.normalize_server, called without api_client: image is None
normalize_server(server) ==
    [hostname |-> server.hostname,
     id |-> server.id,
     image |-> None,
     image_full |-> server.image,
     ssh_keys |-> server.ssh_keys,
     status |-> server.status,
     tags |-> server.tags]

\* GET servers/{id}; a deploying server may have finished deploying meanwhile
ApiGetServer(id) ==
    IF Exists(id)
    THEN LET s == Find(id)[1]
             ready == [s EXCEPT !.status = "deployed"]
         IN {Answer(200, Opt(s), remote), Answer(200, Opt(ready), Replace(ready)), ApiError}
    ELSE {Answer(404, Nothing, remote), ApiError}

\* PUT servers/{id}
ApiPutServer(id, payload) ==
    IF Exists(id)
    THEN LET s == Find(id)[1]
             new == [s EXCEPT !.hostname = IF "hostname" \in DOMAIN payload THEN payload.hostname ELSE @,
                              !.tags = IF "tags" \in DOMAIN payload THEN payload.tags ELSE @]
         IN {Answer(201, Opt(new), Replace(new)), ApiError}
    ELSE {Answer(404, Nothing, remote)}

\* POST servers/{id}/actions, type reinstall
ApiReinstallServer(id, payload) ==
    IF Exists(id)
    THEN LET s == Find(id)[1]
             new == [s EXCEPT !.image = IF "image" \in DOMAIN payload THEN ApiImageName(payload.image) ELSE @,
                              !.ssh_keys = IF "ssh_keys" \in DOMAIN payload THEN ApiKeyIds(payload.ssh_keys) ELSE @,
                              !.status = "deploying"]
         IN {Answer(200, Opt(new), Replace(new)), ApiError}
    ELSE {Answer(404, Nothing, remote)}

\* POST projects/{project_id}/servers
ApiCreateServer(payload) ==
    LET new == [id |-> FreshId, hostname |-> payload.hostname, tags |-> payload.tags,
                image |-> ApiImageName(payload.image),
                ssh_keys |-> ApiKeyIds(payload.ssh_keys), status |-> "deploying"]
    IN {Answer(201, Opt(new), Append(remote, new)), ApiError}

\* get_server
get_server(a) == IF a.status = 200 THEN Opt(normalize_server(Get(a.body))) ELSE Nothing
get_server_fails(a) == a.status \notin {200, 404}

\* get_basic_server_update_request
get_basic_server_update_request(p, server) ==
    LET differs(k) == p[k] # None /\ p[k] # Get(server)[k]
        keys == {"hostname", "tags"}
    IN [raised |-> ~IsSome(server) /\ \E k \in keys : p[k] # None,
        req |-> IF IsSome(server) THEN Dict({k \in keys : differs(k)}, LAMBDA k : p[k]) ELSE NoReq,
        changed |-> IsSome(server) /\ \E k \in keys : differs(k)]

\* a variant of get_reinstall_server_update_request that passes the untracked
\* options on without counting them as a difference
get_reinstall_server_update_request_untracked(p, server) ==
    LET untracked == {k \in {"user_data", "os_partition_size"} : p[k] # None}
        differs(k) == p[k] # None /\ p[k] # Get(server)[k]
        keys == {"image", "ssh_keys"}
        tracked == IF IsSome(server) THEN {k \in keys : differs(k)} ELSE {}
        fixed == [password |-> "generated", type |-> "reinstall"]
    IN [raised |-> ~IsSome(server) /\ \E k \in keys : p[k] # None,
        req |-> Merge(Dict(untracked \cup tracked, LAMBDA k : p[k]), fixed),
        changed |-> tracked # {}]

\* get_reinstall_server_update_request
get_reinstall_server_update_request(p, server) ==
    LET untracked == {k \in {"user_data", "os_partition_size"} : p[k] # None}
        differs(k) == p[k] # None /\ p[k] # Get(server)[k]
        keys == {"image", "ssh_keys"}
        tracked == IF IsSome(server) THEN {k \in keys : differs(k)} ELSE {}
        fixed == [password |-> "generated", type |-> "reinstall"]
    IN [raised |-> ~IsSome(server) /\ \E k \in keys : p[k] # None,
        req |-> Merge(Dict(untracked \cup tracked, LAMBDA k : p[k]), fixed),
        changed |-> untracked \cup tracked # {}]


\* wait_for_active is entered with a server: its locals are set
enter_wait_for_active(st, server) ==
    [st EXCEPT !.pc = "server_wait", !.waited = server, !.time_passed = 0]

\* update_state, lines 358-371 when basic_changed is false, and the lines
\* that follow the basic PUT: the reinstall is sent only with allow_reinstall
update_state_rebuild(st, p) ==
    IF "reinstall" \in st.planned
    THEN IF p.allow_reinstall = "True"
         THEN Goto(st, "server_reinstall")
         ELSE fail_json(st, "The options you've selected require server reinstalling.")
    ELSE Goto(st, "server_refetch")

\* update_state from the answer of its first GET up to its first mutating request
update_state(st, p, cm, a) ==
    LET server == get_server(a)
        basic == get_basic_server_update_request(p, server)
        rebuild == get_reinstall_server_update_request(p, server)
        ch == basic.changed \/ rebuild.changed
        st1 == [st EXCEPT !.res = server,
                          !.req = [basic |-> basic.req, reinstall |-> rebuild.req],
                          !.planned = (IF basic.changed THEN {"basic"} ELSE {})
                                      \cup (IF rebuild.changed THEN {"reinstall"} ELSE {})]
    IN IF get_server_fails(a) THEN fail_json(st, "Error getting server")
       ELSE IF basic.raised \/ rebuild.raised THEN Raise(st, "TypeError")
       ELSE IF cm THEN exit_json(st1, ch, Nothing)
       ELSE IF ~ch THEN exit_json(st1, FALSE, server)
       ELSE IF basic.changed THEN Goto(st1, "server_put")
       ELSE IF ~IsSome(server) /\ p.allow_reinstall = "True" THEN Raise(st1, "TypeError")
       ELSE update_state_rebuild(st1, p)

\* update_state, the answer to the basic PUT
update_state_put(st, p, a) ==
    IF a.status # 201
    THEN fail_json(st, "Failed to update server")
    ELSE update_state_rebuild(st, p)

\* reinstall_server, the answer to the reinstall POST
reinstall_server(st, p, a) ==
    IF a.status # 200
    THEN fail_json(st, "Failed to update server")
    ELSE IF p.state = "active"
         THEN LET server == Opt([Get(st.res) EXCEPT !.status = Get(a.body).status])
              IN enter_wait_for_active([st EXCEPT !.res = server], server)
         ELSE Goto(st, "server_refetch")

\* wait_for_active, the loop condition
wait_for_active_cond(st) ==
    IF ~IsSome(st.waited) THEN "raise"
    ELSE IF Get(st.waited).status # "deployed" THEN "poll"
    ELSE "return"

\* a variant of the loop body that fails only after the timeout is exceeded
wait_for_active_poll_exceeded(st, p, a) ==
    LET st1 == [st EXCEPT !.waited = get_server(a),
                          !.time_passed = @ + POLL_INTERVAL]
    IN IF get_server_fails(a) THEN fail_json(st, "Error getting server")
       ELSE IF st1.time_passed > p.active_timeout
            THEN fail_json(st1, "Timed out waiting for server to become active")
            ELSE st1

\* wait_for_active, the loop body after the answer to its GET
wait_for_active_poll(st, p, a) ==
    LET st1 == [st EXCEPT !.waited = get_server(a),
                          !.time_passed = @ + POLL_INTERVAL]
    IN IF get_server_fails(a) THEN fail_json(st, "Error getting server")
       ELSE IF st1.time_passed >= p.active_timeout
            THEN fail_json(st1, "Timed out waiting for server to become active")
            ELSE st1

\* update_state / creation_state, the final GET and exit
server_report(st, a) ==
    IF get_server_fails(a) THEN fail_json(st, "Error getting server")
    ELSE exit_json(st, TRUE, get_server(a))

\* creation_state up to the POST: "fail", "check" or "post"
creation_state_validate(p, cm) ==
    IF \E k \in {"project_id", "region", "plan"} : p[k] = None THEN "fail"
    ELSE IF p.user_data # None /\ p.user_data = "!!not-base64" THEN "invalid"
    ELSE IF cm THEN "check"
    ELSE "post"

\* create_server's payload
create_server_payload(p) ==
    [k \in {"plan", "image", "os_partition_size", "region", "hostname",
            "ssh_keys", "user_data", "tags"} |-> p[k]]

\* create_server and creation_state, the answer to the POST
creation_state(st, p, a) ==
    IF a.status # 201
    THEN fail_json(st, "Failed to create server")
    ELSE LET server == Opt(normalize_server(Get(a.body)))
             st1 == [st EXCEPT !.res = server]
         IN IF p.state = "active"
            THEN enter_wait_for_active(st1, server)
            ELSE Goto(st1, "server_refetch")

\* absent_state, the answer to its GET
absent_state(st, cm, a) ==
    LET server == get_server(a)
        st1 == [st EXCEPT !.res = server,
                          !.planned = IF IsSome(server) THEN {"delete"} ELSE {}]
    IN IF get_server_fails(a) THEN fail_json(st, "Error getting server")
       ELSE IF IsSome(server)
            THEN IF cm THEN exit_json(st1, TRUE, Nothing)
                 ELSE Goto(st1, "server_delete")
            ELSE exit_json(st1, FALSE, Nothing)

\* delete_server and absent_state, the answer to the DELETE
delete_server(st, a) ==
    IF a.status # 204
    THEN fail_json(st, "Failed to delete server")
    ELSE exit_json(st, TRUE, Nothing)


----------------------------------------------------------------------------
(* modules/storage.py *)

\* storage.get_module_args
storage_module_args(t) == [t EXCEPT !.state = Default(@, "attached")]

\* normalizers.normalize_storage
normalize_storage(storage) ==
    [id |-> storage.id,
     size |-> storage.size,
     description |-> IF storage.description = "" THEN None ELSE storage.description,
     target_server_id |-> storage.attached_to,
     state |-> IF storage.attached_to # None THEN "attached" ELSE "detached"]

\* POST projects/{project_id}/storages
ApiCreateStorage(payload) ==
    LET new == [id |-> FreshId, size |-> payload.size,
                description |-> IF payload.description = None THEN "" ELSE payload.description,
                attached_to |-> None]
    IN {Answer(201, Opt(new), Append(remote, new)), ApiError}

\* POST storages/{id}/attachments
ApiAttachStorage(id, payload) ==
    IF Exists(id)
    THEN LET new == [Find(id)[1] EXCEPT !.attached_to = payload.attach_to]
         IN {Answer(201, Opt(new), Replace(new)), ApiError}
    ELSE {Answer(404, Nothing, remote)}

\* DELETE storages/{id}/attachments
ApiDetachStorage(id) ==
    IF Exists(id)
    THEN LET new == [Find(id)[1] EXCEPT !.attached_to = None]
         IN {Answer(204, Nothing, Replace(new)), ApiError}
    ELSE {Answer(404, Nothing, remote)}

\* PUT storages/{id}: after resizing, a new volume ID is set
ApiPutStorage(id, payload) ==
    IF Exists(id)
    THEN LET s == Find(id)[1]
             resized == "size" \in DOMAIN payload /\ payload.size # s.size
             new == [s EXCEPT !.size = IF "size" \in DOMAIN payload THEN payload.size ELSE @,
                              !.description = IF "description" \in DOMAIN payload
                                              THEN payload.description ELSE @,
                              !.id = IF resized THEN FreshId ELSE @]
         IN {Answer(201, Opt(new),
                    [i \in 1..Len(remote) |-> IF remote[i].id = id THEN new ELSE remote[i]]),
             ApiError}
    ELSE {Answer(404, Nothing, remote)}

\* get_storage
get_storage(a) == IF a.status = 200 THEN Opt(normalize_storage(Get(a.body))) ELSE Nothing
get_storage_fails(a) == a.status \notin {200, 404}

\* storage.get_update_request
storage_get_update_request(p, storage) ==
    LET differs(k) == p[k] # None /\ p[k] # storage[k]
        keys == {k \in {"size", "description"} : differs(k)}
    IN [req |-> Dict(keys, LAMBDA k : p[k]), changed |-> keys # {}]

\* a variant of attach_param_validation that lets a detached volume name a server
attach_param_validation_attached_only(p) ==
    IF p.state = "attached" /\ p.target_server_id = None
    THEN "target_server_id is required if state is attached"
    ELSE None

\* attach_param_validation: the message it fails with, or None
attach_param_validation(p) ==
    IF p.state = "attached" /\ p.target_server_id = None
    THEN "target_server_id is required if state is attached"
    ELSE IF p.state = "detached" /\ Truthy(p.target_server_id)
    THEN "can't use target_server_id with detached storage state"
    ELSE None

\* storage creation_state up to the POST: the message it fails with, "check" or "post"
storage_creation_validate(p, cm) ==
    IF \E k \in {"project_id", "region", "size"} : p[k] = None
    THEN "project_id, region and size are required parameters for storage volume creation"
    ELSE IF attach_param_validation(p) # None THEN attach_param_validation(p)
    ELSE IF cm THEN "check"
    ELSE "post"

storage_create_payload(p) ==
    [region |-> p.region, size |-> p.size, description |-> p.description]

\* storage creation_state, the answer to the POST
storage_creation_state(st, p, a) ==
    IF a.status # 201
    THEN fail_json(st, "Failed to create storage volume")
    ELSE LET st1 == [st EXCEPT !.res = Opt(Get(a.body))]
         IN IF p.state = "attached"
            THEN Goto(st1, "storage_attach")
            ELSE Goto(st1, "storage_refetch")

\* storage update_state, lines 347-352: the first request of the update
storage_update_first(p, storage, attach_required) ==
    IF p.state = "detached" /\ storage.target_server_id # None THEN "storage_detach"
    ELSE IF attach_required
         THEN IF storage.target_server_id # None THEN "storage_detach" ELSE "storage_attach"
         ELSE "storage_put"

\* storage update_state from the answer of its GET up to its first mutating request
storage_update_state(st, p, cm, a) ==
    LET storage == Get(get_storage(a))
        upd == storage_get_update_request(p, storage)
        attach_required == /\ p.state = "attached"
                           /\ p.target_server_id # None
                           /\ storage.target_server_id # p.target_server_id
        detach_required == /\ p.state = "detached"
                           /\ storage.target_server_id # None
        ch == upd.changed \/ attach_required \/ detach_required
        st1 == [st EXCEPT !.res = Opt(storage),
                          !.req = [basic |-> upd.req],
                          !.planned = (IF upd.changed THEN {"basic"} ELSE {})
                                      \cup (IF attach_required THEN {"attach"} ELSE {})
                                      \cup (IF detach_required THEN {"detach"} ELSE {})]
    IN IF get_storage_fails(a) THEN fail_json(st, "Error getting storage volume")
       ELSE IF ~IsSome(get_storage(a)) THEN fail_json(st, "Failed to get storage volume with id")
       ELSE IF /\ p.state = "attached"
               /\ p.target_server_id = None
               /\ storage.target_server_id = None
            THEN fail_json(st, "target_server_id is required if state is attached")
       ELSE IF p.state = "detached" /\ p.target_server_id # None
            THEN fail_json(st, "can't use target_server_id with detached storage state")
       ELSE IF cm THEN exit_json(st1, ch, Nothing)
       ELSE IF ~ch THEN exit_json(st1, FALSE, Opt(storage))
       ELSE Goto(st1, storage_update_first(p, storage, attach_required))

\* a variant of delete_storage that deletes an attached volume at once
delete_storage_first_attached(storage) == "storage_delete"

\* delete_storage: its first request
delete_storage_first(storage) ==
    IF Truthy(storage.target_server_id) THEN "storage_detach" ELSE "storage_delete"

\* storage absent_state, the answer to its GET
storage_absent_state(st, cm, a) ==
    LET storage == get_storage(a)
        st1 == [st EXCEPT !.res = storage,
                          !.planned = IF IsSome(storage) THEN {"delete"} ELSE {}]
    IN IF get_storage_fails(a) THEN fail_json(st, "Error getting storage volume")
       ELSE IF IsSome(storage)
            THEN IF cm THEN exit_json(st1, TRUE, Nothing)
                 ELSE Goto(st1, delete_storage_first(Get(storage)))
            ELSE exit_json(st1, FALSE, Nothing)

\* detach_storage, and what its caller sends next
detach_storage(st, p, a) ==
    IF a.status # 204
    THEN fail_json(st, "Failed to detach storage volume")
    ELSE IF p.state = "absent" THEN Goto(st, "storage_delete")
    ELSE IF "attach" \in st.planned THEN Goto(st, "storage_attach")
    ELSE Goto(st, "storage_put")

\* attach_storage, and what its caller sends next
attach_storage(st, a) ==
    IF a.status # 201
    THEN fail_json(st, "Failed to attach storage volume")
    ELSE IF "create" \in st.planned THEN Goto(st, "storage_refetch")
    ELSE Goto(st, "storage_put")

\* storage update_state, the answer to the PUT
storage_update_put(st, a) ==
    IF a.status # 201
    THEN fail_json(st, "Failed to update storage volume")
    ELSE Goto(st, "storage_refetch")

\* a variant of delete_storage that does not look at the status
delete_storage_any_status(st, a) == exit_json(st, TRUE, Nothing)

\* delete_storage, the answer to the DELETE
delete_storage(st, a) ==
    IF a.status # 204
    THEN fail_json(st, "Failed to delete storage volume")
    ELSE exit_json(st, TRUE, Nothing)

\* storage update_state / creation_state, the final GET and exit
storage_report(st, a) ==
    IF get_storage_fails(a) THEN fail_json(st, "Error getting storage volume")
    ELSE exit_json(st, TRUE, get_storage(a))

----------------------------------------------------------------------------
(* modules/floating_ip.py *)

\* Python string operations
PyEndsWith(str, c) == Len(str) > 0 /\ SubSeq(str, Len(str), Len(str)) = c
PyDropLast(str) == SubSeq(str, 1, Len(str) - 1)
\* str.split(sep)[0]
PySplitHead(str, sep) ==
    LET at == {i \in 1..(Len(str) - Len(sep) + 1) : SubSeq(str, i, i + Len(sep) - 1) = sep}
    IN IF at = {} THEN str
       ELSE SubSeq(str, 1, (CHOOSE i \in at : \A j \in at : i <= j) - 1)

ZONE == ".cloud.cherryservers.net"

\* floating_ip.get_module_args
floating_ip_module_args(t) ==
    [t EXCEPT !.state = Default(@, "present"),
              !.ddos_scrubbing = Default(@, "False")]

\* normalizers.normalize_ip: flattens the nested objects of the IP in place;
\* an IP that is not targeted has the sentinel 0
normalize_ip(fip) ==
    [id |-> fip.id,
     address |-> fip.address,
     ptr_record |-> fip.ptr_record,
     a_record |-> fip.a_record,
     tags |-> fip.tags,
     targeted_to |-> fip.targeted_to,
     target_server_id |-> fip.targeted_to,
     route_ip_id |-> fip.routed_to]

\* the API-native forms of the DNS records
ApiPtr(v) == IF v = None THEN None ELSE IF PyEndsWith(v, ".") THEN v ELSE v \o "."
ApiARecord(v) == IF v = None THEN None ELSE v \o ZONE

\* GET ips/{id}: an IP that is gone is answered 404 or, shortly after its
\* deletion, 403
ApiGetFip(id) ==
    ApiGetById(id) \cup (IF Exists(id) THEN {} ELSE {Answer(403, Nothing, remote)})

\* GET <list url>
ApiList == {Answer(200, remote, remote), ApiError}

\* POST projects/{project_id}/ips
ApiCreateFip(payload) ==
    LET new == [id |-> FreshId, address |-> "addr" \o FreshId,
                ptr_record |-> ApiPtr(payload.ptr_record),
                a_record |-> ApiARecord(payload.a_record),
                tags |-> payload.tags,
                targeted_to |-> IF payload.targeted_to = None THEN "0" ELSE payload.targeted_to,
                routed_to |-> payload.routed_to]
    IN {Answer(201, Opt(new), Append(remote, new)), ApiError}

\* PUT ips/{id}
ApiPutFip(id, payload) ==
    IF Exists(id)
    THEN LET f == Find(id)[1]
             has(k) == k \in DOMAIN payload
             new == [f EXCEPT !.ptr_record = IF has("ptr_record") THEN ApiPtr(payload.ptr_record) ELSE @,
                              !.a_record = IF has("a_record") THEN ApiARecord(payload.a_record) ELSE @,
                              !.tags = IF has("tags") THEN payload.tags ELSE @,
                              !.targeted_to = IF has("targeted_to") THEN payload.targeted_to ELSE @,
                              !.routed_to = IF has("routed_to") THEN payload.routed_to ELSE @]
         IN {Answer(200, Opt(new), Replace(new)), ApiError}
    ELSE {Answer(404, Nothing, remote)}

\* common.find_resources: the resources of the list that match any of the keys
find_resources(p, keys, list) ==
    SelectSeq(list, LAMBDA r : \E k \in keys : r[k] = p[k])

\* a variant of get_update_request that takes an untargeted IP's target to be None
fip_get_update_request_no_sentinel(p, fip0) ==
    LET ptr_raises == fip0.ptr_record = ""
        fip == [fip0 EXCEPT
                  !.ptr_record = IF @ # None /\ PyEndsWith(@, ".") THEN PyDropLast(@) ELSE @,
                  !.a_record = IF @ # None THEN PySplitHead(@, ZONE) ELSE @]
        differs(k) == p[k] # None /\ p[k] # fip[k]
        keys == {k \in {"ptr_record", "a_record", "tags"} : differs(k)}
        routed == IF differs("route_ip_id") THEN [routed_to |-> p.route_ip_id] ELSE NoReq
        targeted == IF p.target_server_id # None
                       /\ p.target_server_id #
                             (IF fip.target_server_id = "0" THEN None ELSE fip.target_server_id)
                    THEN [targeted_to |-> p.target_server_id] ELSE NoReq
        r == Merge(Merge(Dict(keys, LAMBDA k : p[k]), routed), targeted)
    IN [raised |-> ptr_raises, req |-> r, changed |-> DOMAIN r # {}]

\* floating_ip.get_update_request
fip_get_update_request(p, fip0) ==
    LET ptr_raises == fip0.ptr_record = ""
        fip == [fip0 EXCEPT
                  !.ptr_record = IF @ # None /\ PyEndsWith(@, ".") THEN PyDropLast(@) ELSE @,
                  !.a_record = IF @ # None THEN PySplitHead(@, ZONE) ELSE @]
        differs(k) == p[k] # None /\ p[k] # fip[k]
        keys == {k \in {"ptr_record", "a_record", "tags"} : differs(k)}
        routed == IF differs("route_ip_id") THEN [routed_to |-> p.route_ip_id] ELSE NoReq
        targeted == IF differs("target_server_id")
                    THEN [targeted_to |-> p.target_server_id] ELSE NoReq
        r == Merge(Merge(Dict(keys, LAMBDA k : p[k]), routed), targeted)
    IN [raised |-> ptr_raises, req |-> r, changed |-> DOMAIN r # {}]

\* create_fip's payload
create_fip_payload(p) ==
    [region |-> p.region_slug, routed_to |-> p.route_ip_id,
     targeted_to |-> p.target_server_id, ptr_record |-> p.ptr_record,
     a_record |-> p.a_record, ddos_scrubbing |-> p.ddos_scrubbing, tags |-> p.tags]

\* get_fip: the failure it ends with (or None) and the Optional IP found
get_fip(p, a) ==
    IF p.id # None
    THEN IF a.status \notin {200, 404}
         THEN [err |-> "Unknown error retrieving floating IP", fip |-> Nothing]
         ELSE [err |-> None, fip |-> IF a.status = 200 THEN a.body ELSE Nothing]
    ELSE IF a.status # 200
         THEN [err |-> "Failed to get resources", fip |-> Nothing]
         ELSE LET ips == find_resources(p, {"id", "address"}, a.body)
              IN IF Len(ips) > 1
                 THEN [err |-> "More than one matching floating IP found", fip |-> Nothing]
                 ELSE IF Len(ips) = 0 THEN [err |-> None, fip |-> Nothing]
                 ELSE [err |-> None, fip |-> Opt(ips[1])]

\* update_fip up to the PUT
update_fip(st, p, cm, fip) ==
    LET upd == fip_get_update_request(p, fip)
        st1 == [st EXCEPT !.res = Opt(fip), !.req = [basic |-> upd.req],
                          !.planned = IF upd.changed THEN {"basic"} ELSE {}]
    IN IF upd.raised THEN Raise(st, "IndexError")
       ELSE IF cm THEN exit_json(st1, upd.changed, Nothing)
       ELSE IF ~upd.changed THEN exit_json(st1, FALSE, Opt(fip))
       ELSE Goto(st1, "fip_put")

\* create_fip up to the POST
create_fip(st, p, cm) ==
    IF p.project_id = None \/ p.region_slug = None
    THEN fail_json(st, "project_id and region_slug are required for creating SSH keys.")
    ELSE IF cm THEN exit_json([st EXCEPT !.planned = {"create"}], TRUE, Nothing)
    ELSE Goto([st EXCEPT !.planned = {"create"}], "fip_post")

\* delete_fip up to its first request
delete_fip(st, cm, fip) ==
    LET st1 == [st EXCEPT !.res = Opt(fip), !.planned = {"delete"}]
    IN IF cm THEN exit_json(st1, TRUE, Nothing)
       ELSE IF fip.targeted_to # "0" THEN Goto(st1, "fip_untarget")
       ELSE Goto(st1, "fip_delete")

\* floating_ip.run_module from the answer to get_fip's GET
fip_run_module(st, p, cm, a) ==
    LET found == get_fip(p, a)
    IN IF found.err # None THEN fail_json(st, found.err)
       ELSE IF p.state = "present"
            THEN IF IsSome(found.fip)
                 THEN update_fip(st, p, cm, normalize_ip(Get(found.fip)))
                 ELSE create_fip(st, p, cm)
            ELSE IF IsSome(found.fip)
                 THEN delete_fip(st, cm, normalize_ip(Get(found.fip)))
                 ELSE exit_json(st, FALSE, Nothing)

\* update_fip, the answer to the PUT
update_fip_put(st, a) ==
    IF a.status # 200
    THEN fail_json(st, "Failed to update floating IP address")
    ELSE exit_json(st, TRUE, Opt(normalize_ip(Get(a.body))))

\* create_fip, the answer to the POST
create_fip_post(st, a) ==
    IF a.status # 201
    THEN fail_json(st, "Failed to create floating IP")
    ELSE Goto([st EXCEPT !.res = a.body], "fip_created")

\* create_fip, the answer to the GET after the POST
create_fip_get(st, a) ==
    IF a.status # 200
    THEN fail_json(st, "Failed to retrieve floating IP after creating it")
    ELSE exit_json(st, TRUE, Opt(normalize_ip(Get(a.body))))

\* untarget_fip
untarget_fip(st, a) ==
    IF a.status # 200
    THEN fail_json(st, "Failed to untarget floating IP")
    ELSE Goto(st, "fip_delete")

\* delete_fip, the answer to the DELETE
delete_fip_delete(st, a) ==
    IF a.status # 204
    THEN fail_json(st, "Failed to delete floating IP")
    ELSE exit_json(st, TRUE, Nothing)

----------------------------------------------------------------------------
(* module_utils/resource_managers/resource_manager.py, project_manager.py, *)
(* module_utils/standard_module.py, modules/project.py                     *)

\* project._arg_spec
project_arg_spec(t) ==
    [t EXCEPT !.state = Default(@, "present"),
              !.bgp = Default(@, "False")]

\* normalizers.normalize_project
normalize_project(project) ==
    [id |-> project.id, name |-> project.name, bgp |-> [enabled |-> project.bgp]]

\* ResourceManager.perform_request: the status is not among the valid ones
perform_request_fails(a, valid_status_codes) == a.status \notin valid_status_codes

\* ResourceManager.perform_request on a GET of one resource: None unless 200
perform_request_get(a, normalize(_)) ==
    IF a.status = 200 THEN Opt(normalize(Get(a.body))) ELSE Nothing

\* POST teams/{team_id}/projects
ApiCreateProject(payload) ==
    LET new == [id |-> FreshId, name |-> payload.name, bgp |-> payload.bgp]
    IN {Answer(201, Opt(new), Append(remote, new)), ApiError}

\* PUT projects/{id}
ApiPutProject(id, payload) ==
    IF Exists(id)
    THEN LET pr == Find(id)[1]
             new == [pr EXCEPT !.name = IF "name" \in DOMAIN payload THEN payload.name ELSE @,
                               !.bgp = IF "bgp" \in DOMAIN payload THEN payload.bgp ELSE @]
         IN {Answer(201, Opt(new), Replace(new)), ApiError}
    ELSE {Answer(404, Nothing, remote)}

\* a variant of _get_resource that prefers the name and the team to the id
project_lookup_by_name_first(p) ==
    IF Truthy(p.name) /\ Truthy(p.team_id) THEN "team"
    ELSE IF Truthy(p.id) THEN "id"
    ELSE "none"

\* ProjectModule._get_resource: which lookup it makes
project_lookup(p) ==
    IF Truthy(p.id) THEN "id"
    ELSE IF Truthy(p.name) /\ Truthy(p.team_id) THEN "team"
    ELSE "none"

\* ProjectModule._get_resource, the loop over the projects of the team
RECURSIVE project_match(_, _, _)
project_match(p, projects, resource) ==
    IF projects = << >> THEN resource
    ELSE project_match(p, Tail(projects),
                       IF Head(projects).name = p.name THEN Opt(Head(projects)) ELSE resource)

\* ProjectModule._get_update_requests
project_get_update_requests(p, resource) ==
    LET name == IF p.name # None /\ p.name # resource.name
                THEN [name |-> p.name] ELSE NoReq
        bgp == IF p.bgp # None /\ p.bgp # resource.bgp.enabled
               THEN [bgp |-> p.bgp] ELSE NoReq
        r == Merge(name, bgp)
    IN IF DOMAIN r # {} THEN [update |-> r] ELSE NoReq

\* StandardModule._delete_resource up to the deletion
StandardModule_delete_resource(st, cm, resource) ==
    LET st1 == [st EXCEPT !.res = resource,
                          !.planned = IF IsSome(resource) THEN {"delete"} ELSE {}]
    IN IF IsSome(resource)
       THEN IF cm THEN exit_json(st1, TRUE, Nothing)
            ELSE Goto(st1, "project_delete")
       ELSE exit_json(st1, FALSE, Nothing)

\* a variant of _update_resource without its check-mode branch
StandardModule_update_resource_unchecked(st, p, cm, resource) ==
    LET requests == project_get_update_requests(p, resource)
        st1 == [st EXCEPT !.res = Opt(resource), !.req = requests,
                          !.planned = DOMAIN requests]
    IN IF DOMAIN requests = {} THEN exit_json(st1, FALSE, Opt(resource))
       ELSE Goto(st1, "project_put")

\* StandardModule._update_resource up to the update
StandardModule_update_resource(st, p, cm, resource) ==
    LET requests == project_get_update_requests(p, resource)
        st1 == [st EXCEPT !.res = Opt(resource), !.req = requests,
                          !.planned = DOMAIN requests]
    IN IF cm THEN exit_json(st1, DOMAIN requests # {}, Nothing)
       ELSE IF DOMAIN requests = {} THEN exit_json(st1, FALSE, Opt(resource))
       ELSE Goto(st1, "project_put")

\* StandardModule._create_resource up to the creation
StandardModule_create_resource(st, p, cm) ==
    IF p.name = None \/ p.team_id = None
    THEN fail_json(st, "name and team_id are required for creating projects.")
    ELSE IF cm THEN exit_json([st EXCEPT !.planned = {"create"}], TRUE, Nothing)
    ELSE Goto([st EXCEPT !.planned = {"create"}], "project_post")

\* a variant of run that does not look at the state option
StandardModule_run_present(st, p, cm, resource) ==
    IF IsSome(resource) THEN StandardModule_update_resource(st, p, cm, Get(resource))
    ELSE StandardModule_create_resource(st, p, cm)

\* StandardModule.run once the resource is known
StandardModule_run(st, p, cm, resource) ==
    IF p.state = "absent" THEN StandardModule_delete_resource(st, cm, resource)
    ELSE IF IsSome(resource) THEN StandardModule_update_resource(st, p, cm, Get(resource))
    ELSE StandardModule_create_resource(st, p, cm)

\* ProjectModule._get_resource by id, then StandardModule.run
project_run_by_id(st, p, cm, a) ==
    IF perform_request_fails(a, {200, 404})
    THEN fail_json(st, "error on attempt to GET for project")
    ELSE StandardModule_run(st, p, cm, perform_request_get(a, normalize_project))

\* ProjectModule._get_resource by team, then StandardModule.run
project_run_by_team(st, p, cm, a) ==
    IF perform_request_fails(a, {200})
    THEN fail_json(st, "error on attempt to GET for project")
    ELSE StandardModule_run(st, p, cm,
            project_match(p, [i \in 1..Len(a.body) |-> normalize_project(a.body[i])], Nothing))

\* ProjectModule._perform_update: the answer to the PUT
project_perform_update(st, a) ==
    IF perform_request_fails(a, {201})
    THEN fail_json(st, "error on attempt to PUT for project")
    ELSE Goto(st, "project_refetch")

\* ProjectModule._perform_creation: the answer to the POST
project_perform_creation(st, a) ==
    IF perform_request_fails(a, {201})
    THEN fail_json(st, "error on attempt to POST for project")
    ELSE Goto([st EXCEPT !.res = Opt(normalize_project(Get(a.body)))], "project_refetch")

\* ProjectModule._perform_deletion and exit_json
project_perform_deletion(st, a) ==
    IF perform_request_fails(a, {204})
    THEN fail_json(st, "error on attempt to DELETE for project")
    ELSE exit_json(st, TRUE, Nothing)

\* _perform_update / _perform_creation: get_by_id after the mutation, and exit_json
project_report(st, a) ==
    IF perform_request_fails(a, {200, 404})
    THEN fail_json(st, "error on attempt to GET for project")
    ELSE exit_json(st, TRUE, perform_request_get(a, normalize_project))

----------------------------------------------------------------------------
(* modules/sshkey.py *)

\* sshkey.get_module_args
sshkey_module_args(t) == [t EXCEPT !.state = Default(@, "present")]

\* constants.SSH_IDENTIFYING_KEYS: resource key and module option, pairwise
SSH_IDENTIFYING_KEYS ==
    {<<"id", "id">>, <<"fingerprint", "fingerprint">>, <<"label", "label">>,
     <<"key", "public_key">>}

\* common.get_keys: the keys of the account that match any identifying option
get_keys(p, list) ==
    SelectSeq(list, LAMBDA r : \E k \in SSH_IDENTIFYING_KEYS : r[k[1]] = p[k[2]])

ApiFingerprint(key) == "fp of " \o key

\* POST ssh-keys
ApiCreateKey(payload) ==
    LET new == [id |-> FreshId, label |-> payload.label, key |-> payload.key,
                fingerprint |-> ApiFingerprint(payload.key)]
    IN {Answer(201, Opt(new), Append(remote, new)), ApiError}

\* PUT ssh-keys/{id}; a null field leaves the stored value
ApiPutKey(id, payload) ==
    IF Exists(id)
    THEN LET k == Find(id)[1]
             new == [k EXCEPT !.label = IF payload.label # None THEN payload.label ELSE @,
                              !.key = IF payload.key # None THEN payload.key ELSE @,
                              !.fingerprint = IF payload.key # None
                                              THEN ApiFingerprint(payload.key) ELSE @]
         IN {Answer(201, Opt(new), Replace(new)), ApiError}
    ELSE {Answer(404, Nothing, remote)}

\* check_param_state_diff
check_param_state_diff(p, current_state) ==
    \/ p.label # None /\ p.label # current_state.label
    \/ p.public_key # None /\ p.public_key # current_state.key

\* update_key up to the PUT
update_key(st, p, cm, key) ==
    LET st1 == [st EXCEPT !.res = Opt(key), !.planned = {"basic"},
                          !.req = [basic |-> [label |-> p.label, key |-> p.public_key]]]
    IN IF p.label = None /\ p.public_key = None THEN exit_json(st, FALSE, Nothing)
       ELSE IF cm THEN exit_json(st1, TRUE, Nothing)
       ELSE Goto(st1, "sshkey_put")

\* create_key up to the POST
create_key(st, p, cm) ==
    IF p.label = None \/ p.public_key = None
    THEN fail_json(st, "Label and public key are required for creating SSH keys.")
    ELSE IF cm THEN exit_json([st EXCEPT !.planned = {"create"}], TRUE, Nothing)
    ELSE Goto([st EXCEPT !.planned = {"create"}], "sshkey_post")

\* sshkey.run_module with state present, from the answer to get_keys' GET
sshkey_present(st, p, cm, a) ==
    LET existing_keys == get_keys(p, a.body)
    IN IF a.status # 200 THEN fail_json(st, "Failed to get resources")
       ELSE IF Len(existing_keys) > 1
       THEN fail_json(st, "More than one SSH key matches the given parameters.")
       ELSE IF Len(existing_keys) > 0
       THEN IF check_param_state_diff(p, existing_keys[1])
            THEN update_key(st, p, cm, existing_keys[1])
            ELSE exit_json(st, FALSE, Nothing)
       ELSE create_key(st, p, cm)

\* a variant of delete_keys that deletes the first matching key only
delete_keys_first_only(st, cm, p, a) ==
    LET ssh_keys_to_delete == get_keys(p, a.body)
        st1 == [st EXCEPT !.res = IF ssh_keys_to_delete = << >> THEN << >>
                                   ELSE <<Head(ssh_keys_to_delete)>>,
                          !.planned = IF ssh_keys_to_delete # << >> THEN {"delete"} ELSE {}]
    IN IF a.status # 200 THEN fail_json(st, "Failed to get resources")
       ELSE IF cm /\ ssh_keys_to_delete # << >> THEN exit_json(st1, TRUE, Nothing)
       ELSE IF ssh_keys_to_delete = << >> THEN exit_json(st1, FALSE, Nothing)
       ELSE Goto(st1, "sshkey_delete")

\* delete_keys, from the answer to get_keys' GET up to the first DELETE
delete_keys(st, cm, p, a) ==
    LET ssh_keys_to_delete == get_keys(p, a.body)
        st1 == [st EXCEPT !.res = ssh_keys_to_delete,
                          !.planned = IF ssh_keys_to_delete # << >> THEN {"delete"} ELSE {}]
    IN IF a.status # 200 THEN fail_json(st, "Failed to get resources")
       ELSE IF cm /\ ssh_keys_to_delete # << >> THEN exit_json(st1, TRUE, Nothing)
       ELSE IF ssh_keys_to_delete = << >> THEN exit_json(st1, FALSE, Nothing)
       ELSE Goto(st1, "sshkey_delete")

\* a variant of the loop body that tries a key again when its DELETE is rejected
delete_keys_next_retry(st, a) ==
    LET key_id == Head(st.res).id
        st1 == [st EXCEPT !.res = IF a.status # 204 /\ st.failures = << >> THEN @ ELSE Tail(@),
                          !.failures = IF a.status # 204 THEN Append(@, key_id) ELSE @]
    IN IF st1.res # << >> THEN st1
       ELSE IF st1.failures # << >>
            THEN [fail_json(st1, "Failed to delete SSH key") EXCEPT !.changed = TRUE]
            ELSE exit_json(st1, TRUE, Nothing)

\* delete_keys, the loop body after the answer to a DELETE, and after the last one
delete_keys_next(st, a) ==
    LET key_id == Head(st.res).id
        st1 == [st EXCEPT !.res = Tail(@),
                          !.failures = IF a.status # 204 THEN Append(@, key_id) ELSE @]
    IN IF st1.res # << >> THEN st1
       ELSE IF st1.failures # << >>
            THEN [fail_json(st1, "Failed to delete SSH key") EXCEPT !.changed = TRUE]
            ELSE exit_json(st1, TRUE, Nothing)

\* update_key, the answer to the PUT
update_key_put(st, a) ==
    IF a.status # 201
    THEN fail_json(st, "Failed to update SSH key")
    ELSE exit_json(st, TRUE, a.body)

\* create_key, the answer to the POST
create_key_post(st, a) ==
    IF a.status # 201
    THEN fail_json(st, "Failed to create SSH key")
    ELSE exit_json(st, TRUE, a.body)

----------------------------------------------------------------------------
(* module_utils/resource_managers/server_manager.py *)

\* ServerManager.get_by_id
ServerManager_get_by_id(a) == perform_request_get(a, normalize_server)

\* a variant of the loop condition that polls once before it looks at the status
ServerManager_wait_cond_poll_first(st) ==
    IF ~IsSome(st.waited) THEN "raise"
    ELSE IF Get(st.waited).status # "deployed" \/ st.time_passed = 0 THEN "poll"
    ELSE "return"

\* ServerManager.wait_for_active, the loop condition
ServerManager_wait_cond(st) ==
    IF ~IsSome(st.waited) THEN "raise"
    ELSE IF Get(st.waited).status # "deployed" THEN "poll"
    ELSE "return"

\* ServerManager.wait_for_active, the loop body after the answer to get_by_id
ServerManager_wait_poll(st, timeout, a) ==
    LET st1 == [st EXCEPT !.time_passed = @ + POLL_INTERVAL,
                          !.waited = ServerManager_get_by_id(a)]
    IN IF perform_request_fails(a, {200, 404})
       THEN fail_json(st, "error on attempt to GET for server")
       ELSE IF st1.time_passed >= timeout
            THEN fail_json(st1, "timed out waiting for server to become active")
            ELSE st1

\* the caller of wait_for_active: the server it waits for is fetched first
ServerManager_caller(st, a) ==
    IF perform_request_fails(a, {200, 404})
    THEN fail_json(st, "error on attempt to GET for server")
    ELSE IF a.status = 404 THEN exit_json(st, FALSE, Nothing)
    ELSE [st EXCEPT !.pc = "manager_wait", !.waited = ServerManager_get_by_id(a),
                    !.time_passed = 0]

----------------------------------------------------------------------------
(* module_utils/resource_managers/sshkey_manager.py *)

\* normalizers.normalize_ssh_key
normalize_ssh_key(key) ==
    [id |-> key.id, label |-> key.label, key |-> key.key,
     fingerprint |-> key.fingerprint]

\* SSHKeyManager.get_by_id: perform_request with valid_status_codes (200,);
\* the caller hands back what it returns
SSHKeyManager_get_by_id(st, a) ==
    IF perform_request_fails(a, {200})
    THEN fail_json(st, "error on attempt to GET for ssh key")
    ELSE exit_json(st, FALSE, perform_request_get(a, normalize_ssh_key))

----------------------------------------------------------------------------
(* modules/project_info.py and module_utils/info_module.py *)

\* ProjectInfoModule._filter
ProjectInfoModule_filter(p, resource) ==
    /\ \A k \in {"id", "name"} : p[k] = None \/ p[k] = resource[k]
    /\ p.bgp = None \/ p.bgp = resource.bgp.enabled

\* InfoModule.run from the answer to the GET of _get_single_resource (single)
\* or of _get_resource_list
InfoModule_run(st, p, single, a) ==
    LET resources == IF single THEN <<normalize_project(Get(a.body))>>
                     ELSE [i \in 1..Len(a.body) |-> normalize_project(a.body[i])]
        filtered_resources == SelectSeq(resources, LAMBDA x : ProjectInfoModule_filter(p, x))
    IN IF perform_request_fails(a, IF single THEN {200, 404} ELSE {200})
       THEN fail_json(st, "error on attempt to GET for project")
       ELSE IF single /\ ~IsSome(perform_request_get(a, normalize_project))
       THEN fail_json(st, "no cherryservers_projects resource found")
       ELSE exit_json([st EXCEPT !.gathered = filtered_resources], FALSE, filtered_resources)

----------------------------------------------------------------------------
(* modules/server_info.py *)

\* the items of a tags dict, option or resource field
TagsOf(tags) ==
    IF tags = "{env: dev}" THEN {<<"env", "dev">>}
    ELSE IF tags = "{env: prod}" THEN {<<"env", "prod">>}
    ELSE IF tags = "{env: dev, role: db}" THEN {<<"env", "dev">>, <<"role", "db">>}
    ELSE {}

\* server_filter
server_filter(module_params, server) ==
    /\ \A k \in {"hostname", "image", "id"} :
          module_params[k] = None \/ module_params[k] = server[k]
    /\ \/ module_params.tags = None
       \/ \A kv \in TagsOf(module_params.tags) : kv \in TagsOf(server.tags)

\* GET plans/{plan}/images: the images of the server's plan
ApiPlanImages ==
    {Answer(200, <<[name |-> ApiImageName("img1"), slug |-> "img1"],
                   [name |-> ApiImageName("img2"), slug |-> "img2"]>>, remote),
     ApiError}

\* normalizers.get_server_image_slug from the answer to its GET: the failure
\* it ends with (or None) and the slug
get_server_image_slug(server, a) ==
    LET images == SelectSeq(a.body, LAMBDA image : image.name = server.image)
    IN IF a.status # 200
       THEN [err |-> "failed to retrieve server plan images", slug |-> None]
       ELSE IF server.image = "unknown" THEN [err |-> None, slug |-> "unknown"]
       ELSE IF images # << >> THEN [err |-> None, slug |-> images[1].slug]
       ELSE [err |-> "no server image slug found for image", slug |-> None]

\* get_single_server (single) or get_multiple_servers, from the answer to
\* the GET, up to the loop of run_module
get_servers(st, single, a) ==
    LET servers == IF single THEN (IF a.status = 200 THEN a.body ELSE << >>)
                   ELSE a.body
    IN IF a.status \notin {200, 404} THEN fail_json(st, "Unexpected client error")
       ELSE IF servers = << >> THEN exit_json(st, FALSE, << >>)
       ELSE [st EXCEPT !.res = servers, !.gathered = << >>, !.pc = "server_info_loop"]

\* run_module, the loop body from the answer to normalize_server's GET, and
\* exit_json after the last server
server_info_loop_body(st, p, a) ==
    LET raw == Head(st.res)
        image_slug == get_server_image_slug(raw, a)
        server == [normalize_server(raw) EXCEPT !.image = image_slug.slug]
        st1 == [st EXCEPT !.res = Tail(@),
                          !.gathered = IF server_filter(p, server) THEN Append(@, server) ELSE @]
    IN IF image_slug.err # None THEN fail_json(st, image_slug.err)
       ELSE IF st1.res # << >> THEN st1
       ELSE exit_json(st1, FALSE, st1.gathered)

----------------------------------------------------------------------------
(* module_utils/common.py: generate_password *)

\* a function called on its own hands its value back to its caller
Return(st, v) == [st EXCEPT !.pc = "done", !.outcome = "return", !.returned = v]

\* string.ascii_lowercase, string.ascii_uppercase, string.digits: the first
\* and the last character of each stand for the whole range
ascii_lowercase == <<"a", "z">>
ascii_uppercase == <<"A", "Z">>
digits == <<"0", "9">>

\* random.choice(population), the k-th draw of the call: the generator's
\* stream of numbers is read in order and repeats after Len(stream) draws
random_choice(population, stream, k) ==
    population[(stream[((k - 1) % Len(stream)) + 1] % Len(population)) + 1]

generate_password_first_fixed(length, stream) ==
    LET l1 == IF length < 8 THEN 8 ELSE length
        l2 == IF l1 > 24 THEN 24 ELSE l1
        lowercase == random_choice(ascii_lowercase, stream, 1)
        uppercase == random_choice(ascii_uppercase, stream, 2)
        digit == random_choice(digits, stream, 3)
        remaining == [i \in 1..(l2 - 3) |->
                        random_choice(ascii_uppercase \o ascii_lowercase \o digits,
                                      stream, 3 + i)]
    IN <<uppercase, lowercase, digit>> \o remaining

generate_password(length, stream) ==
    LET l1 == IF length < 8 THEN 8 ELSE length
        l2 == IF l1 > 24 THEN 24 ELSE l1
        lowercase == random_choice(ascii_lowercase, stream, 1)
        uppercase == random_choice(ascii_uppercase, stream, 2)
        digit == random_choice(digits, stream, 3)
        remaining == [i \in 1..(l2 - 3) |->
                        random_choice(ascii_uppercase \o ascii_lowercase \o digits,
                                      stream, 3 + i)]
    IN <<lowercase, uppercase, digit>> \o remaining

----------------------------------------------------------------------------
(* module_utils/client.py: CherryServersClient.send_request *)

\* Python values of different types that one variable may hold
PyNone == [type |-> "NoneType", v |-> "None"]
PyStr(x) == [type |-> "str", v |-> x]
PyDict(x) == [type |-> "dict", v |-> x]

\* json.loads for the texts the API answers with
json_loads(text) ==
    CASE text = "{\"message\": \"Not found\"}" -> [message |-> "Not found"]
      [] text = "{\"message\": \"Server error\"}" -> [message |-> "Server error"]
      [] text = "{\"id\": 1}" -> [id |-> "1"]
      [] text = "{\"id\": 2}" -> [id |-> "2"]

\* info is fetch_url's info dict, resp_text what resp.read() yields
send_request_above_400(st, method, info, resp_text) ==
    IF info.status > 400
    THEN Return(st, <<info.status, PyStr(json_loads(info.body).message)>>)
    ELSE IF ~(200 <= info.status /\ info.status < 300)
    THEN fail_json(st, info.msg)
    ELSE IF method # "DELETE"
    THEN Return(st, <<info.status, PyDict(json_loads(resp_text))>>)
    ELSE Return(st, <<info.status, PyNone>>)

send_request(st, method, info, resp_text) ==
    IF info.status >= 400
    THEN Return(st, <<info.status, PyStr(json_loads(info.body).message)>>)
    ELSE IF ~(200 <= info.status /\ info.status < 300)
    THEN fail_json(st, info.msg)
    ELSE IF method # "DELETE"
    THEN Return(st, <<info.status, PyDict(json_loads(resp_text))>>)
    ELSE Return(st, <<info.status, PyNone>>)

----------------------------------------------------------------------------
(* inventory/cherryservers.py: InventoryModule *)

\* GET projects/{project_id}/servers through Request.get; an URLError or
\* HTTPError is raised as AnsibleParserError
ApiInventory == {Answer(200, remote, remote), ApiError}

\* _filter: TRUE when the server is left out; t holds the plugin's options
InventoryModule_filter(t, server) ==
    Truthy(t.status) /\ t.status # server.status

\* _populate: the hosts added to the inventory, in order
InventoryModule_populate(t, servers) ==
    LET kept == SelectSeq([i \in 1..Len(servers) |-> normalize_server(servers[i])],
                          LAMBDA server : ~InventoryModule_filter(t, server))
    IN [i \in 1..Len(kept) |-> kept[i].hostname]

\* parse, lines 189-198: user_cache_setting is the plugin's cache option, t.cache
\* the cache argument of parse; cached is self._cache[cache_key] (Optional)
attempt_to_read_cache(t) == t.cache_option /\ t.cache
cache_needs_update(t, cached) ==
    (t.cache_option /\ ~t.cache) \/ (attempt_to_read_cache(t) /\ ~IsSome(cached))

\* a variant of the test of line 199 that refreshes whatever the cache holds
parse_requests_always(t, cached) == TRUE

\* parse, line 199: whether _get_inventory is called
parse_requests(t, cached) ==
    ~attempt_to_read_cache(t) \/ cache_needs_update(t, cached)

\* parse from the answer of _get_inventory (a, unused when nothing was
\* requested) to its end
InventoryModule_parse(st, t, a) ==
    LET requested == parse_requests(t, st.inv_cache)
        read == IF attempt_to_read_cache(t) THEN <<"read">> ELSE << >>
        servers == IF requested THEN a.body ELSE Get(st.inv_cache)
        store == cache_needs_update(t, st.inv_cache) /\ servers # << >>
    IN IF requested /\ a.status # 200
       THEN Raise([st EXCEPT !.cache_ops = read], "AnsibleParserError")
       ELSE Return([st EXCEPT !.res = Opt(servers),
                              !.inv_cache = IF store THEN Opt(servers) ELSE @,
                              !.cache_ops = IF store THEN Append(read, "write") ELSE read],
                   InventoryModule_populate(t, servers))

----------------------------------------------------------------------------
(* Inputs *)

Timeouts == {POLL_INTERVAL * k : k \in 1..MaxIntervals}

ServerTasks ==
    \* no id: creation is assumed
    [state : {"present", "active"}, id : {None},
     project_id : {None, "p1"}, region : {None, "r1"}, plan : {None, "pl1"},
     hostname : {None, "h2"}, tags : {None}, image : {None, "img1"},
     ssh_keys : {None}, user_data : {None, "dXNlcg==", "!!not-base64"},
     os_partition_size : {None}, active_timeout : Timeouts,
     allow_reinstall : {None}]
    \cup
    \* an id and state absent
    [state : {"absent"}, id : {"1"},
     project_id : {None}, region : {None}, plan : {None},
     hostname : {None}, tags : {None}, image : {None},
     ssh_keys : {None}, user_data : {None},
     os_partition_size : {None}, active_timeout : {POLL_INTERVAL},
     allow_reinstall : {None}]
    \cup
    \* an id: update of an existing server
    [state : {"present", "active"}, id : {"1"},
     project_id : {None}, region : {None}, plan : {None},
     hostname : {None, "h1", "h2"}, tags : {None, "t2"}, image : {None, "img1", "img2"},
     ssh_keys : {None, "['1']"}, user_data : {None, "dXNlcg=="},
     os_partition_size : {None, "10"}, active_timeout : Timeouts,
     allow_reinstall : {None, "True"}]

ServerRemotes ==
    {<< >>} \cup
    {<<[id |-> "1", hostname |-> "h1", tags |-> "t1", image |-> ApiImageName("img1"),
        ssh_keys |-> ApiKeyIds("['1']"), status |-> st]>> : st \in {"deployed", "deploying"}}

StorageTasks ==
    \* no id: creation
    [state : {"attached", "detached"}, id : {None},
     project_id : {None, "p1"}, region : {None, "r1"}, size : {None, "10"},
     description : {None, "d1"}, target_server_id : {None, "s1"}]
    \cup
    \* state absent
    [state : {"absent"}, id : {"1"},
     project_id : {None}, region : {None}, size : {None},
     description : {None}, target_server_id : {None}]
    \cup
    \* an id: update of an existing volume
    [state : {None, "attached", "detached"}, id : {"1"},
     project_id : {None}, region : {None}, size : {None, "10", "20"},
     description : {None, "d1", "d2"}, target_server_id : {None, "s1", "s2"}]

StorageRemotes ==
    {<< >>} \cup
    {<<[id |-> "1", size |-> "10", description |-> d, attached_to |-> t]>> :
        d \in {"", "d1"}, t \in {None, "s1"}}

\* mutually_exclusive: route_ip_id/target_server_id and id/address;
\* required_one_of: project_id, id; address requires project_id
FipTasks ==
    \* creation: no identity that matches
    [state : {"present"}, id : {None}, address : {None},
     project_id : {"p1"}, region_slug : {None, "r1"}, route_ip_id : {None},
     target_server_id : {None, "s1"}, ptr_record : {None, "ptr1"},
     a_record : {None, "a1"}, ddos_scrubbing : {None}, tags : {None, "t1"}]
    \cup
    [state : {"present"}, id : {"9"}, address : {None},
     project_id : {None, "p1"}, region_slug : {None, "r1"}, route_ip_id : {None},
     target_server_id : {None}, ptr_record : {None},
     a_record : {None}, ddos_scrubbing : {None}, tags : {None}]
    \cup
    \* state absent, located by id or by address
    [state : {"absent"}, id : {"1"}, address : {None},
     project_id : {None}, region_slug : {None}, route_ip_id : {None},
     target_server_id : {None}, ptr_record : {None},
     a_record : {None}, ddos_scrubbing : {None}, tags : {None}]
    \cup
    [state : {"absent"}, id : {None}, address : {"addr1"},
     project_id : {"p1"}, region_slug : {None}, route_ip_id : {None},
     target_server_id : {None}, ptr_record : {None},
     a_record : {None}, ddos_scrubbing : {None}, tags : {None}]
    \cup
    \* update, located by id or by address
    {t \in [state : {None, "present"}, id : {None, "1"}, address : {None, "addr1"},
            project_id : {None, "p1"}, region_slug : {None}, route_ip_id : {None, "ip1"},
            target_server_id : {None, "0", "s1", "s2"}, ptr_record : {None, "ptr1", "ptr2"},
            a_record : {None, "a1", "a2"}, ddos_scrubbing : {None}, tags : {None, "t2"}] :
        /\ (t.id = None) # (t.address = None)
        /\ (t.address # None) = (t.project_id # None)
        /\ t.route_ip_id = None \/ t.target_server_id = None}

FipRemoteOne ==
    [id : {"1"}, address : {"addr1"}, ptr_record : {None, "", "ptr1."},
     a_record : {None, "a1", "a1" \o ZONE}, tags : {"t1"},
     targeted_to : {"0", "s1"}, routed_to : {None}]

\* further IPs of the project carry the same address
FipRemotes ==
    {<< >>} \cup {<<f>> : f \in FipRemoteOne}
    \cup {[i \in 1..n |-> [id |-> ToString(i), address |-> "addr1", ptr_record |-> None,
                          a_record |-> None, tags |-> "t1", targeted_to |-> "0",
                          routed_to |-> None]] : n \in 2..MaxRemote}

\* required_if state absent: one of id, name and one of id, team_id
ProjectTasks ==
    \* located by id
    [state : {None, "present", "absent"}, id : {"1", "9"}, team_id : {None, "tm1"},
     name : {None, "n1", "n2"}, bgp : {None, "True", "False"}]
    \cup
    \* located by team and name
    [state : {"present", "absent"}, id : {None}, team_id : {"tm1"},
     name : {"n1", "n3"}, bgp : {None, "True", "False"}]
    \cup
    \* no identity
    [state : {"present"}, id : {None}, team_id : {None, "tm1"},
     name : {None, "n1"}, bgp : {None}]

\* further projects of the team carry the same name
ProjectRemotes ==
    {<< >>} \cup {<<[id |-> "1", name |-> "n1", bgp |-> b]>> : b \in {"True", "False"}}
    \cup {[i \in 1..n |-> [id |-> ToString(i), name |-> "n1", bgp |-> "False"]] :
             n \in 2..MaxRemote}

\* required_if state present: one of label, public_key
SshkeyTasks ==
    {t \in [state : {None, "present"}, id : {None, "1"}, fingerprint : {None},
            label : {None, "l1", "l2"}, public_key : {None, "k1", "k2"}] :
        t.label # None \/ t.public_key # None}
    \cup
    [state : {"absent"}, id : {None, "1"}, fingerprint : {None, ApiFingerprint("k2")},
     label : {None, "l1"}, public_key : {None, "k2"}]

\* the i-th key of the account has label l<i> and key k<i>
SshkeyRemotes ==
    {[i \in 1..n |-> [id |-> ToString(i), label |-> "l" \o ToString(i),
                      key |-> "k" \o ToString(i),
                      fingerprint |-> ApiFingerprint("k" \o ToString(i))]] :
        n \in 0..MaxRemote}

\* ServerManager.wait_for_active(server, timeout)
ServerManagerTasks == [state : {"active"}, id : {"1"}, active_timeout : Timeouts]

\* SSHKeyManager.get_by_id(key_id)
SSHKeyManagerTasks == [state : {"present"}, id : {"1", "2"}]

\* required_one_of: team_id, id; an info module has no state option, the
\* field tells its task from the tasks of the other modules
ProjectInfoTasks ==
    {t \in [state : {"info"}, id : {None, "1", "9"}, team_id : {None, "tm1"},
            name : {None, "n1", "n2"}, bgp : {None, "True", "False"}] :
        t.id # None \/ t.team_id # None}

\* required_one_of: project_id, id
ServerInfoTasks ==
    {t \in [state : {"info"}, id : {None, "1", "9"}, project_id : {None, "p1"},
            hostname : {None, "h1"}, image : {None, "img1", "img2"},
            tags : {None, "{env: dev}", "{env: prod}"}] :
        t.id # None \/ t.project_id # None}

\* the i-th server of the project has hostname h<i>; the first runs img1
\* with two tags, the others run an image no plan lists
ServerInfoRemotes ==
    {[i \in 1..n |-> [id |-> ToString(i), hostname |-> "h" \o ToString(i),
                      tags |-> IF i = 1 THEN "{env: dev, role: db}" ELSE "{env: prod}",
                      image |-> IF i = 1 THEN ApiImageName("img1") ELSE "unknown",
                      ssh_keys |-> "[]", status |-> "deployed"]] :
        n \in 0..MaxRemote}

\* generate_password(length) with the numbers its random generator yields
PasswordLengths == {-1, 0, 7, 8, 9, 16, 23, 24, 25, 40}

PasswordTasks ==
    [state : {"call"}, length : PasswordLengths,
     stream : [1..MaxStream -> 0..5]]

\* send_request(method, ...) with what fetch_url hands back: info carries
\* the status, the message of a transport error and the body of an HTTP
\* error, resp the body of a successful answer
Statuses == {-1, 100, 199, 200, 201, 204, 299, 300, 304, 399, 400, 404, 500, 599}

SendRequestTasks ==
    [state : {"call"}, method : {"GET", "POST", "PUT", "DELETE"},
     info : [status : Statuses, msg : {"Request failed"},
             body : {"{\"message\": \"Not found\"}", "{\"message\": \"Server error\"}"}],
     resp : {"{\"id\": 1}", "{\"id\": 2}"}]

\* InventoryModule.parse(inventory, loader, path, cache) with the plugin's
\* options cache and status
InventoryTasks ==
    [state : {"call"}, cache_option : BOOLEAN, cache : BOOLEAN,
     status : {None, "deployed"}]

\* functions that are called on their own
Functions == {"generate_password", "send_request", "inventory"}

Modules ==
    {"server", "storage", "floating_ip", "project", "sshkey", "server_manager",
     "sshkey_manager", "project_info", "server_info"} \cup Functions

Tasks(m) ==
    IF m = "server" THEN ServerTasks
    ELSE IF m = "storage" THEN StorageTasks
    ELSE IF m = "floating_ip" THEN FipTasks
    ELSE IF m = "project" THEN ProjectTasks
    ELSE IF m = "sshkey" THEN SshkeyTasks
    ELSE IF m = "sshkey_manager" THEN SSHKeyManagerTasks
    ELSE IF m = "project_info" THEN ProjectInfoTasks
    ELSE IF m = "server_info" THEN ServerInfoTasks
    ELSE IF m = "generate_password" THEN PasswordTasks
    ELSE IF m = "send_request" THEN SendRequestTasks
    ELSE IF m = "inventory" THEN InventoryTasks
    ELSE ServerManagerTasks

Remotes(m) ==
    IF m = "inventory" THEN ServerRemotes
    ELSE IF m \in Functions THEN {<< >>}
    ELSE IF m = "server" THEN ServerRemotes
    ELSE IF m = "storage" THEN StorageRemotes
    ELSE IF m = "floating_ip" THEN FipRemotes
    ELSE IF m \in {"project", "project_info"} THEN ProjectRemotes
    ELSE IF m = "server_info" THEN ServerInfoRemotes
    ELSE IF m \in {"sshkey", "sshkey_manager"} THEN SshkeyRemotes
    ELSE ServerRemotes

\* what the inventory cache holds under the cache key when parse is called:
\* nothing, or the servers of an earlier call
Caches(m) ==
    IF m = "inventory" THEN {Nothing} \cup {Opt(r) : r \in ServerRemotes}
    ELSE {Nothing}

\* module.params
params ==
    IF mod = "server" THEN server_module_args(task)
    ELSE IF mod = "storage" THEN storage_module_args(task)
    ELSE IF mod = "floating_ip" THEN floating_ip_module_args(task)
    ELSE IF mod = "project" THEN project_arg_spec(task)
    ELSE IF mod = "sshkey" THEN sshkey_module_args(task)
    ELSE task

\* the state in which every run starts, whatever its task
Started ==
    /\ remote \in Remotes(mod)
    /\ check_mode \in BOOLEAN
    /\ pc = IF mod \in Functions THEN "call" ELSE "init"
    /\ res = Nothing
    /\ req = NoReq
    /\ waited = Nothing
    /\ time_passed = 0
    /\ failures = << >>
    /\ gathered = << >>
    /\ returned = << >>
    /\ inv_cache \in Caches(mod)
    /\ cache_ops = << >>
    /\ log = << >>
    /\ outcome = "running"
    /\ msg = ""
    /\ changed = FALSE
    /\ reported = Nothing
    /\ planned = {}
    /\ run = 1
    /\ prev = [outcome |-> "none", changed |-> FALSE, planned |-> {}]

Init ==
    /\ mod \in Modules
    /\ task \in Tasks(mod)
    /\ Started

Frame == UNCHANGED <<mod, task, check_mode, run, prev>>

----------------------------------------------------------------------------
(* Actions *)

\* CherryServersClient.__init__: the token is validated with GET user
CherryServersClient_init ==
    /\ pc = "init"
    /\ Send("GET", "user", None, NoReq, ApiGetUser,
            LAMBDA a : validate_auth_token_done(Cur, a,
                          IF mod \in {"project", "project_info"}
                          THEN "manager_init" ELSE "run"))
    /\ Frame

\* ProjectModule.__init__ -> ResourceManager.__init__: a second client is made
ResourceManager_init ==
    /\ pc = "manager_init"
    /\ Send("GET", "user", None, NoReq, ApiGetUser,
            LAMBDA a : validate_auth_token_done(Cur, a, "run"))
    /\ Frame

\* server.run_module -> update_state
server_update_state ==
    /\ pc = "run" /\ mod = "server"
    /\ Truthy(params.id) /\ params.state # "absent"
    /\ Send("GET", "servers/{id}", params.id, NoReq, ApiGetServer(params.id),
            LAMBDA a : update_state(Cur, params, check_mode, a))
    /\ Frame

\* update_state: the basic PUT
server_update_put ==
    /\ pc = "server_put"
    /\ Send("PUT", "servers/{id}", Get(res).id, req.basic,
            ApiPutServer(Get(res).id, req.basic),
            LAMBDA a : update_state_put(Cur, params, a))
    /\ Frame

\* reinstall_server
server_reinstall_server ==
    /\ pc = "server_reinstall"
    /\ Send("POST", "servers/{id}/actions", Get(res).id, req.reinstall,
            ApiReinstallServer(Get(res).id, req.reinstall),
            LAMBDA a : reinstall_server(Cur, params, a))
    /\ Frame

\* wait_for_active: one evaluation of the loop condition and, if it holds, the body
server_wait_for_active ==
    /\ pc = "server_wait"
    /\ LET c == wait_for_active_cond(Cur)
       IN IF c = "raise" THEN NoSend(Raise(Cur, "TypeError"))
          ELSE IF c = "return" THEN NoSend(Goto(Cur, "server_refetch"))
          ELSE Send("GET", "servers/{id}", Get(waited).id, NoReq,
                    ApiGetServer(Get(waited).id),
                    LAMBDA a : wait_for_active_poll(Cur, params, a))
    /\ Frame

\* update_state / creation_state: the GET after the mutation, and exit_json
server_refetch ==
    /\ pc = "server_refetch"
    /\ LET id == IF Truthy(params.id) THEN params.id ELSE Get(res).id
       IN Send("GET", "servers/{id}", id, NoReq, ApiGetServer(id),
               LAMBDA a : server_report(Cur, a))
    /\ Frame

\* server.run_module -> creation_state
server_creation_state ==
    /\ pc = "run" /\ mod = "server"
    /\ ~Truthy(params.id)
    /\ LET v == creation_state_validate(params, check_mode)
       IN IF v = "fail"
          THEN NoSend(fail_json(Cur, "Missing required options for server creation."))
          ELSE IF v = "invalid"
          THEN NoSend(fail_json(Cur, "Invalid user_data string"))
          ELSE IF v = "check"
          THEN NoSend(exit_json([Cur EXCEPT !.planned = {"create"}], TRUE, Nothing))
          ELSE Send("POST", "projects/{project_id}/servers", params.project_id,
                    create_server_payload(params),
                    ApiCreateServer(create_server_payload(params)),
                    LAMBDA a : creation_state([Cur EXCEPT !.planned = {"create"}], params, a))
    /\ Frame

\* server.run_module -> absent_state
server_absent_state ==
    /\ pc = "run" /\ mod = "server"
    /\ Truthy(params.id) /\ params.state = "absent"
    /\ Send("GET", "servers/{id}", params.id, NoReq, ApiGetServer(params.id),
            LAMBDA a : absent_state(Cur, check_mode, a))
    /\ Frame

\* delete_server
server_delete_server ==
    /\ pc = "server_delete"
    /\ Send("DELETE", "servers/{id}", Get(res).id, NoReq, ApiDelete(Get(res).id),
            LAMBDA a : delete_server(Cur, a))
    /\ Frame

\* storage.run_module -> creation_state
storage_creation ==
    /\ pc = "run" /\ mod = "storage"
    /\ params.state # "absent" /\ ~Truthy(params.id)
    /\ LET v == storage_creation_validate(params, check_mode)
       IN IF v = "check"
          THEN NoSend(exit_json([Cur EXCEPT !.planned = {"create"}], TRUE, Nothing))
          ELSE IF v = "post"
          THEN Send("POST", "projects/{project_id}/storages", params.project_id,
                    storage_create_payload(params),
                    ApiCreateStorage(storage_create_payload(params)),
                    LAMBDA a : storage_creation_state([Cur EXCEPT !.planned = {"create"}],
                                                      params, a))
          ELSE NoSend(fail_json(Cur, v))
    /\ Frame

\* storage.run_module -> update_state
storage_update ==
    /\ pc = "run" /\ mod = "storage"
    /\ params.state # "absent" /\ Truthy(params.id)
    /\ Send("GET", "storages/{id}", params.id, NoReq, ApiGetById(params.id),
            LAMBDA a : storage_update_state(Cur, params, check_mode, a))
    /\ Frame

\* storage.run_module -> absent_state
storage_absent ==
    /\ pc = "run" /\ mod = "storage"
    /\ params.state = "absent"
    /\ Send("GET", "storages/{id}", params.id, NoReq, ApiGetById(params.id),
            LAMBDA a : storage_absent_state(Cur, check_mode, a))
    /\ Frame

\* detach_storage
storage_detach ==
    /\ pc = "storage_detach"
    /\ Send("DELETE", "storages/{id}/attachments", Get(res).id, NoReq,
            ApiDetachStorage(Get(res).id),
            LAMBDA a : detach_storage(Cur, params, a))
    /\ Frame

\* attach_storage
storage_attach ==
    /\ pc = "storage_attach"
    /\ LET payload == [attach_to |-> params.target_server_id]
       IN Send("POST", "storages/{id}/attachments", Get(res).id, payload,
               ApiAttachStorage(Get(res).id, payload),
               LAMBDA a : attach_storage(Cur, a))
    /\ Frame

\* storage update_state: the PUT
storage_put ==
    /\ pc = "storage_put"
    /\ Send("PUT", "storages/{id}", Get(res).id, req.basic,
            ApiPutStorage(Get(res).id, req.basic),
            LAMBDA a : storage_update_put(Cur, a))
    /\ Frame

\* delete_storage: the DELETE
storage_delete ==
    /\ pc = "storage_delete"
    /\ Send("DELETE", "storages/{id}", params.id, NoReq, ApiDelete(params.id),
            LAMBDA a : delete_storage(Cur, a))
    /\ Frame

\* storage update_state / creation_state: the GET after the mutation, and exit_json
storage_refetch ==
    /\ pc = "storage_refetch"
    /\ Send("GET", "storages/{id}", Get(res).id, NoReq, ApiGetById(Get(res).id),
            LAMBDA a : storage_report(Cur, a))
    /\ Frame

\* floating_ip.run_module: get_fip and the handler of the state up to its first request
fip_get_fip ==
    /\ pc = "run" /\ mod = "floating_ip"
    /\ IF params.id # None
       THEN Send("GET", "ips/{id}", params.id, NoReq, ApiGetFip(params.id),
                 LAMBDA a : fip_run_module(Cur, params, check_mode, a))
       ELSE Send("GET", "projects/{project_id}/ips", params.project_id, NoReq, ApiList,
                 LAMBDA a : fip_run_module(Cur, params, check_mode, a))
    /\ Frame

\* update_fip: the PUT and exit_json
fip_put ==
    /\ pc = "fip_put"
    /\ Send("PUT", "ips/{id}", Get(res).id, req.basic, ApiPutFip(Get(res).id, req.basic),
            LAMBDA a : update_fip_put(Cur, a))
    /\ Frame

\* create_fip: the POST
fip_post ==
    /\ pc = "fip_post"
    /\ Send("POST", "projects/{project_id}/ips", params.project_id,
            create_fip_payload(params), ApiCreateFip(create_fip_payload(params)),
            LAMBDA a : create_fip_post(Cur, a))
    /\ Frame

\* create_fip: the GET after the POST, and exit_json
fip_created ==
    /\ pc = "fip_created"
    /\ Send("GET", "ips/{id}", Get(res).id, NoReq, ApiGetById(Get(res).id),
            LAMBDA a : create_fip_get(Cur, a))
    /\ Frame

\* untarget_fip
fip_untarget ==
    /\ pc = "fip_untarget"
    /\ Send("PUT", "ips/{id}", Get(res).id, [targeted_to |-> "0"],
            ApiPutFip(Get(res).id, [targeted_to |-> "0"]),
            LAMBDA a : untarget_fip(Cur, a))
    /\ Frame

\* delete_fip: the DELETE and exit_json
fip_delete ==
    /\ pc = "fip_delete"
    /\ Send("DELETE", "ips/{id}", params.id, NoReq, ApiDelete(params.id),
            LAMBDA a : delete_fip_delete(Cur, a))
    /\ Frame

\* ProjectModule.run: _get_resource and StandardModule.run up to its first request
project_run ==
    /\ pc = "run" /\ mod = "project"
    /\ LET by == project_lookup(params)
       IN IF by = "id"
          THEN Send("GET", "projects/{id}", params.id, NoReq, ApiGetById(params.id),
                    LAMBDA a : project_run_by_id(Cur, params, check_mode, a))
          ELSE IF by = "team"
          THEN Send("GET", "teams/{team_id}/projects", params.team_id, NoReq, ApiList,
                    LAMBDA a : project_run_by_team(Cur, params, check_mode, a))
          ELSE NoSend(StandardModule_run(Cur, params, check_mode, Nothing))
    /\ Frame

\* ProjectModule._perform_update: the PUT
project_put ==
    /\ pc = "project_put"
    /\ Send("PUT", "projects/{id}", Get(res).id, req.update,
            ApiPutProject(Get(res).id, req.update),
            LAMBDA a : project_perform_update(Cur, a))
    /\ Frame

\* ProjectModule._perform_creation: the POST
project_post ==
    /\ pc = "project_post"
    /\ LET payload == [name |-> params.name, bgp |-> params.bgp]
       IN Send("POST", "teams/{team_id}/projects", params.team_id, payload,
               ApiCreateProject(payload),
               LAMBDA a : project_perform_creation(Cur, a))
    /\ Frame

\* ProjectModule._perform_deletion
project_delete ==
    /\ pc = "project_delete"
    /\ Send("DELETE", "projects/{id}", Get(res).id, NoReq, ApiDelete(Get(res).id),
            LAMBDA a : project_perform_deletion(Cur, a))
    /\ Frame

\* ProjectModule._perform_update / _perform_creation: get_by_id, and exit_json
project_refetch ==
    /\ pc = "project_refetch"
    /\ Send("GET", "projects/{id}", Get(res).id, NoReq, ApiGetById(Get(res).id),
            LAMBDA a : project_report(Cur, a))
    /\ Frame

\* sshkey.run_module with state present
sshkey_run_present ==
    /\ pc = "run" /\ mod = "sshkey"
    /\ params.state = "present"
    /\ Send("GET", "ssh-keys", None, NoReq, ApiList,
            LAMBDA a : sshkey_present(Cur, params, check_mode, a))
    /\ Frame

\* sshkey.run_module with state absent: delete_keys up to its first DELETE
sshkey_run_absent ==
    /\ pc = "run" /\ mod = "sshkey"
    /\ params.state = "absent"
    /\ IF \A k \in {"id", "fingerprint", "label", "public_key"} : params[k] = None
       THEN NoSend(exit_json(Cur, FALSE, Nothing))
       ELSE Send("GET", "ssh-keys", None, NoReq, ApiList,
                 LAMBDA a : delete_keys(Cur, check_mode, params, a))
    /\ Frame

\* update_key: the PUT and exit_json
sshkey_put ==
    /\ pc = "sshkey_put"
    /\ Send("PUT", "ssh-keys/{id}", Get(res).id, req.basic,
            ApiPutKey(Get(res).id, req.basic),
            LAMBDA a : update_key_put(Cur, a))
    /\ Frame

\* create_key: the POST and exit_json
sshkey_post ==
    /\ pc = "sshkey_post"
    /\ LET payload == [label |-> params.label, key |-> params.public_key]
       IN Send("POST", "ssh-keys", None, payload, ApiCreateKey(payload),
               LAMBDA a : create_key_post(Cur, a))
    /\ Frame

\* delete_keys: one DELETE of the loop
sshkey_delete ==
    /\ pc = "sshkey_delete"
    /\ Send("DELETE", "ssh-keys/{id}", Head(res).id, NoReq, ApiDelete(Head(res).id),
            LAMBDA a : delete_keys_next(Cur, a))
    /\ Frame

\* the caller of ServerManager.wait_for_active
ServerManager_run ==
    /\ pc = "run" /\ mod = "server_manager"
    /\ Send("GET", "servers/{id}", params.id, NoReq, ApiGetServer(params.id),
            LAMBDA a : ServerManager_caller(Cur, a))
    /\ Frame

\* ServerManager.wait_for_active: one evaluation of the loop condition and,
\* if it holds, the body; the server is returned when the loop ends
ServerManager_wait_for_active ==
    /\ pc = "manager_wait"
    /\ LET c == ServerManager_wait_cond(Cur)
       IN IF c = "raise" THEN NoSend(Raise(Cur, "TypeError"))
          ELSE IF c = "return" THEN NoSend(exit_json(Cur, FALSE, waited))
          ELSE Send("GET", "servers/{id}", Get(waited).id, NoReq,
                    ApiGetServer(Get(waited).id),
                    LAMBDA a : ServerManager_wait_poll(Cur, params.active_timeout, a))
    /\ Frame

\* a caller of SSHKeyManager.get_by_id
SSHKeyManager_run ==
    /\ pc = "run" /\ mod = "sshkey_manager"
    /\ Send("GET", "ssh-keys/{id}", params.id, NoReq, ApiGetById(params.id),
            LAMBDA a : SSHKeyManager_get_by_id(Cur, a))
    /\ Frame

\* ProjectInfoModule.run
project_info_run ==
    /\ pc = "run" /\ mod = "project_info"
    /\ IF params.id # None
       THEN Send("GET", "projects/{id}", params.id, NoReq, ApiGetById(params.id),
                 LAMBDA a : InfoModule_run(Cur, params, TRUE, a))
       ELSE Send("GET", "teams/{team_id}/projects", params.team_id, NoReq, ApiList,
                 LAMBDA a : InfoModule_run(Cur, params, FALSE, a))
    /\ Frame

\* server_info.run_module up to its loop
server_info_run ==
    /\ pc = "run" /\ mod = "server_info"
    /\ IF params.id # None
       THEN Send("GET", "servers/{id}", params.id, NoReq, ApiGetById(params.id),
                 LAMBDA a : get_servers(Cur, TRUE, a))
       ELSE Send("GET", "projects/{project_id}/servers", params.project_id, NoReq,
                 ApiList, LAMBDA a : get_servers(Cur, FALSE, a))
    /\ Frame

\* server_info.run_module, one turn of its loop
server_info_loop ==
    /\ pc = "server_info_loop"
    /\ Send("GET", "plans/{plan}/images", None, NoReq, ApiPlanImages,
            LAMBDA a : server_info_loop_body(Cur, params, a))
    /\ Frame

\* a caller of generate_password
generate_password_call ==
    /\ pc = "call" /\ mod = "generate_password"
    /\ NoSend(Return(Cur, generate_password(task.length, task.stream)))
    /\ Frame

\* a caller of CherryServersClient.send_request
send_request_call ==
    /\ pc = "call" /\ mod = "send_request"
    /\ NoSend(send_request(Cur, task.method, task.info, task.resp))
    /\ Frame

\* InventoryModule.parse
inventory_parse ==
    /\ pc = "call" /\ mod = "inventory"
    /\ IF parse_requests(task, inv_cache)
       THEN \E a \in ApiInventory :
               /\ log' = Append(log, Request("GET", "projects/{project_id}/servers",
                                             None, NoReq, a.status))
               /\ remote' = a.remote
               /\ Apply(InventoryModule_parse(Cur, task, a))
       ELSE NoSend(InventoryModule_parse(Cur, task, ApiError))
    /\ Frame

\* the same task is run again after a run that reported a change
Rerun ==
    /\ run = 1
    /\ outcome = "exit" /\ changed /\ ~check_mode
    /\ run' = 2
    /\ prev' = [outcome |-> outcome, changed |-> changed, planned |-> planned]
    /\ pc' = "init"
    /\ res' = Nothing
    /\ req' = NoReq
    /\ waited' = Nothing
    /\ time_passed' = 0
    /\ failures' = << >>
    /\ gathered' = << >>
    /\ returned' = << >>
    /\ inv_cache' = inv_cache
    /\ cache_ops' = << >>
    /\ log' = << >>
    /\ outcome' = "running"
    /\ msg' = ""
    /\ changed' = FALSE
    /\ reported' = Nothing
    /\ planned' = {}
    /\ UNCHANGED <<mod, task, check_mode, remote>>

Next ==
    \/ CherryServersClient_init
    \/ ResourceManager_init
    \/ server_update_state
    \/ server_update_put
    \/ server_reinstall_server
    \/ server_wait_for_active
    \/ server_refetch
    \/ server_creation_state
    \/ server_absent_state
    \/ server_delete_server
    \/ storage_creation
    \/ storage_update
    \/ storage_absent
    \/ storage_detach
    \/ storage_attach
    \/ storage_put
    \/ storage_delete
    \/ storage_refetch
    \/ fip_get_fip
    \/ fip_put
    \/ fip_post
    \/ fip_created
    \/ fip_untarget
    \/ fip_delete
    \/ project_run
    \/ project_put
    \/ project_post
    \/ project_delete
    \/ project_refetch
    \/ sshkey_run_present
    \/ sshkey_run_absent
    \/ sshkey_put
    \/ sshkey_post
    \/ sshkey_delete
    \/ ServerManager_run
    \/ ServerManager_wait_for_active
    \/ SSHKeyManager_run
    \/ project_info_run
    \/ server_info_run
    \/ server_info_loop
    \/ generate_password_call
    \/ send_request_call
    \/ inventory_parse
    \/ Rerun

Spec == Init /\ [][Next]_vars

\* active_timeout is any integer: below zero, zero, and between two polls
WaitTimeouts == Timeouts \cup {0 - POLL_INTERVAL, 0, 2 * POLL_INTERVAL + 5}

Undescribed(u) ==
    /\ u.user_data = None
    /\ u.image = None
    /\ u.ssh_keys = None
    /\ u.hostname \in {None, "h2"}

\* The tasks of the runs whose termination is checked: the options that
\* only describe the resource take one value, active_timeout takes any.
FairTasks(m) ==
    IF m = "server"
    THEN {[t EXCEPT !.active_timeout = w] :
             t \in {u \in Tasks(m) : u.active_timeout = POLL_INTERVAL /\ Undescribed(u)},
             w \in WaitTimeouts}
    ELSE IF m = "server_manager"
    THEN {[t EXCEPT !.active_timeout = w] : t \in Tasks(m), w \in WaitTimeouts}
    ELSE IF m = "floating_ip"
    THEN {t \in Tasks(m) : t.a_record = None /\ t.tags = None /\ t.ptr_record \in {None, "ptr1"}}
    ELSE IF m = "generate_password"
    THEN {t \in Tasks(m) : \A i \in DOMAIN t.stream : t.stream[i] = 0}
    ELSE Tasks(m)

FairInit ==
    /\ mod \in Modules
    /\ task \in FairTasks(mod)
    /\ Started

\* every remote request returns: a run that can take a step takes one
FairSpec == FairInit /\ [][Next]_vars /\ WF_vars(Next)


----------------------------------------------------------------------------
(* Properties *)

Sent(i, method, path) == log[i].method = method /\ log[i].path = path
Accepted(i, status) == log[i].status = status
LogIdx == 1..Len(log)

\* the statuses of a remote that performs what it is asked (a GET may find nothing)
NoErrorStatus(status) == (200 <= status /\ status < 300) \/ status = 404

TimedOut ==
    /\ outcome = "fail"
    /\ msg \in {"Timed out waiting for server to become active",
                "timed out waiting for server to become active"}

\* C1: in check mode no POST, PUT or DELETE request is ever sent, and a run
\* whose computed plan is not empty ends with exit_json(changed=True).
C1_DryRunPurity ==
    check_mode =>
        /\ MutatingLog = << >>
        /\ (Terminal /\ planned # {}) => (outcome = "exit" /\ changed)

C1_Witness ==
    /\ check_mode
    /\ outcome = "exit" /\ changed
    /\ mod = "storage" /\ "attach" \in planned

\* the second run of a task whose first run updated a resource it found and
\* reported the change; the remote answered every request of the second run
\* without an error.  Left out are what the documentation declares never to
\* converge: the untracked options user_data and os_partition_size, and a
\* resize, which sets a new volume id.
SecondRun ==
    /\ run = 2 /\ Terminal
    /\ prev.outcome = "exit" /\ prev.changed
    /\ prev.planned \cap {"create", "delete"} = {}
    /\ mod = "server" => task.user_data = None /\ task.os_partition_size = None
    /\ mod = "storage" => task.size = None
    /\ \A i \in LogIdx : NoErrorStatus(log[i].status)

\* C2: the same task run twice in succession: the first run reports
\* changed=True, the second run reports changed=False and sends no mutating
\* request.
C2_Idempotence ==
    SecondRun => (outcome = "exit" /\ ~changed /\ MutatingLog = << >>)

\* C3: a DELETE of a storage volume or floating IP is the last mutating
\* request of its run and, when the resource was attached or targeted, an
\* accepted detach / untarget request precedes it; a volume attached to
\* another server is detached before it is attached; never the reverse.
C3_DetachFirst ==
    /\ mod = "storage" =>
         \A j \in LogIdx :
            /\ Sent(j, "DELETE", "storages/{id}") =>
                 /\ \A k \in LogIdx : k > j => ~IsMutating(log[k])
                 /\ Get(res).target_server_id # None =>
                      \E i \in 1..(j - 1) :
                         Sent(i, "DELETE", "storages/{id}/attachments") /\ Accepted(i, 204)
            /\ (Sent(j, "POST", "storages/{id}/attachments") /\ "create" \notin planned
                  /\ Get(res).target_server_id # None) =>
                 /\ \E i \in 1..(j - 1) :
                       Sent(i, "DELETE", "storages/{id}/attachments") /\ Accepted(i, 204)
                 /\ \A k \in LogIdx :
                       k > j => ~Sent(k, "DELETE", "storages/{id}/attachments")
    /\ mod = "floating_ip" =>
         \A j \in LogIdx :
            Sent(j, "DELETE", "ips/{id}") =>
                 /\ \A k \in LogIdx : k > j => ~IsMutating(log[k])
                 /\ Get(res).targeted_to # "0" =>
                      \E i \in 1..(j - 1) : Sent(i, "PUT", "ips/{id}") /\ Accepted(i, 200)

C3_Witness ==
    /\ mod = "storage" /\ params.state = "absent"
    /\ outcome = "exit" /\ changed
    /\ Len(MutatingLog) = 2
    /\ MutatingLog[1].path = "storages/{id}/attachments"
    /\ MutatingLog[2].path = "storages/{id}"

\* C4: an existing server whose re-provisioning fields differ, without
\* allow_reinstall, outside check mode: the run fails and has sent no
\* mutating request.
C4_ReinstallOptIn ==
    (/\ mod = "server" /\ ~check_mode /\ Terminal
     /\ "reinstall" \in planned /\ params.allow_reinstall # "True")
        => (outcome = "fail" /\ MutatingLog = << >>)

\* the remote resources that match the identity options other than the id
IdentityMatches ==
    IF mod = "floating_ip" THEN find_resources(params, {"address"}, remote)
    ELSE IF mod = "project" THEN SelectSeq(remote, LAMBDA r : r.name = params.name)
    ELSE IF mod = "sshkey" THEN get_keys(params, remote)
    ELSE << >>

LocatedWithoutId ==
    \/ mod = "floating_ip" /\ params.id = None
    \/ mod = "project" /\ project_lookup(params) = "team"
    \/ mod = "sshkey" /\ params.state = "present"

\* C5: when two or more remote resources match the identity options of a
\* resource located without an id, the run fails; it does not go on with one
\* of the matches.
C5_Ambiguity ==
    (/\ LocatedWithoutId
     /\ pc \notin {"init", "manager_init", "run"}
     /\ MutatingLog = << >>
     /\ log[Len(log)].status = 200
     /\ Len(IdentityMatches) > 1)
        => outcome = "fail"


\* the module option that a key of a request payload is taken from
OptionOf(k) ==
    IF k = "routed_to" THEN "route_ip_id"
    ELSE IF k = "targeted_to" THEN "target_server_id"
    ELSE IF k = "key" THEN "public_key"
    ELSE k

\* the keys the update path's comparison put into its requests
DiffKeys == UNION {DOMAIN req[s] : s \in DOMAIN req} \ {"password", "type"}

\* C6: on the update path the options the diff finds differing are options
\* the task sets: an option left out of the task never makes the diff non-empty.
C6_UnsetNeverDiffers ==
    /\ mod \in {"server", "storage", "floating_ip", "project"} =>
          \A k \in DiffKeys : task[OptionOf(k)] # None
    /\ (mod = "sshkey" /\ "basic" \in planned) =>
          \/ task.label # None /\ task.label # Get(res).label
          \/ task.public_key # None /\ task.public_key # Get(res).key

\* C7: every PUT sent to update an existing resource carries only fields
\* that the task sets.
C7_PayloadOnlySetFields ==
    params.state # "absent" =>
        \A i \in LogIdx :
            log[i].method = "PUT" =>
                \A k \in DOMAIN log[i].payload : task[OptionOf(k)] # None

\* C8: with state active, outside check mode, a run of the server module that
\* ends in success reports a server it observed with status deployed.
C8_ActiveGuarantee ==
    (mod = "server" /\ params.state = "active" /\ ~check_mode /\ outcome = "exit")
        => (IsSome(reported) => Get(reported).status = "deployed")

\* C9: the wait polls every POLL_INTERVAL seconds; it ends in the timeout
\* failure exactly when the time passed reaches the timeout (with a timeout
\* of 30: after the third interval, not before), and it returns only a
\* server whose status is deployed.
C9_ConvergenceTimeout ==
    mod \in {"server", "server_manager"} =>
        /\ TimedOut => time_passed >= params.active_timeout
        /\ time_passed >= params.active_timeout => TimedOut
        /\ time_passed % POLL_INTERVAL = 0
        /\ (pc = "server_refetch" /\ IsSome(waited)) => Get(waited).status = "deployed"
        /\ (mod = "server_manager" /\ outcome = "exit" /\ IsSome(reported))
              => Get(reported).status = "deployed"

C9_Witness ==
    /\ mod = "server" /\ params.active_timeout = 3 * POLL_INTERVAL
    /\ time_passed = 3 * POLL_INTERVAL
    /\ TimedOut
    /\ Get(waited).status # "deployed"

\* C10: a wait whose poll returned a deployed server does not end in the
\* timeout failure, also when that poll is the one at which the time passed
\* reaches the timeout.
C10_DeployedBeatsTimeout ==
    TimedOut => ~(IsSome(waited) /\ Get(waited).status = "deployed")


\* a run that ended, without success, inside the wait: the server held by
\* the wait is not a deployed one
EndedInWait ==
    /\ mod \in {"server", "server_manager"}
    /\ outcome \in {"fail", "crash"}
    /\ \/ IsSome(waited) /\ Get(waited).status # "deployed"
       \/ ~IsSome(waited) /\ time_passed > 0

\* C11: a failed read during the wait (an error status, or a 404 for the
\* polled server) counts as not yet deployed: the wait ends without success
\* only by the timeout failure, never by a failure or an exception of a poll.
C11_FailedPollTolerated ==
    EndedInWait => TimedOut


\* C12: the operations of one run on an existing resource are sent in the
\* order detach, reinstall, basic update, attach: no reinstall of a server
\* follows its basic PUT, no basic PUT of a volume follows its attachment,
\* and no detach follows any of them.
C12_FixedOrder ==
    \A i, j \in LogIdx :
        i < j =>
            /\ ~(Sent(i, "PUT", "servers/{id}") /\ Sent(j, "POST", "servers/{id}/actions"))
            /\ ~(Sent(i, "POST", "storages/{id}/attachments") /\ Sent(j, "PUT", "storages/{id}"))
            /\ ~(Sent(i, "PUT", "storages/{id}") /\ Sent(j, "DELETE", "storages/{id}/attachments"))


ResourceModules == {"server", "storage", "floating_ip", "project", "sshkey"}

\* the lookup of the resource by the id of the task was answered with 404
LookupById404 ==
    \E i \in LogIdx :
        /\ log[i].method = "GET" /\ log[i].path # "user" /\ log[i].status = 404
        /\ \A k \in 1..(i - 1) : log[k].path = "user"

\* C13: with a state other than absent, a lookup that finds no resource (a
\* 404 for the id of the task) leads to the creation path: the run does not
\* exit with changed=False, does not fail for "not found", does not raise,
\* and sends no update of the missing resource.
C13_NotFoundCreates ==
    (mod \in ResourceModules /\ params.state # "absent" /\ LookupById404 /\ Terminal)
        => /\ ~(outcome = "exit" /\ ~changed)
           /\ outcome # "crash"
           /\ msg # "Failed to get storage volume with id"
           /\ \A i \in LogIdx : log[i].method = "GET" \/ "create" \in planned


\* the requests a run with state absent may send to remove the resource
IsDelete(r) ==
    r.method = "DELETE" /\ r.path \in {"servers/{id}", "storages/{id}", "ips/{id}",
                                        "projects/{id}", "ssh-keys/{id}"}
IsDetach(r) ==
    \/ r.method = "DELETE" /\ r.path = "storages/{id}/attachments"
    \/ r.method = "PUT" /\ r.path = "ips/{id}" /\ r.payload = [targeted_to |-> "0"]

\* the lookup of a run with state absent found no resource
AbsentNotFound ==
    /\ Len(log) > 0 /\ log[Len(log)].method = "GET" /\ log[Len(log)].path # "user"
    /\ \/ log[Len(log)].status = 404
       \/ log[Len(log)].status = 200 /\ mod = "floating_ip" /\ params.id = None
             /\ find_resources(params, {"address"}, remote) = << >>
       \/ log[Len(log)].status = 200 /\ mod = "project" /\ project_lookup(params) = "team"
             /\ project_match(params, remote, Nothing) = Nothing
       \/ log[Len(log)].status = 200 /\ mod = "sshkey" /\ get_keys(params, remote) = << >>

Rejected(r) == IsMutating(r) /\ ~(200 <= r.status /\ r.status < 300)

\* C15: once a mutating request is rejected, no further mutating request is
\* sent in the run and the run ends in failure; also when several matching
\* SSH keys are deleted.
C15_FailFast ==
    /\ \A i, j \in LogIdx : (i < j /\ Rejected(log[i])) => ~IsMutating(log[j])
    /\ (Terminal /\ \E i \in LogIdx : Rejected(log[i])) => outcome = "fail"


\* C16: a run that exits successfully after a create or update request
\* reports a resource read by a GET sent after its last mutating request,
\* not the body of the POST or PUT response.
C16_RefetchBeforeReport ==
    (/\ mod \in ResourceModules /\ params.state # "absent"
     /\ outcome = "exit" /\ MutatingLog # << >>)
        => (log[Len(log)].method = "GET" /\ log[Len(log)].status = 200)


\* the run sent a size update and the remote accepted it
Resized ==
    \E i \in LogIdx :
        /\ Sent(i, "PUT", "storages/{id}") /\ Accepted(i, 201)
        /\ "size" \in DOMAIN log[i].payload

\* C17: after an accepted size update, which makes the remote set a new
\* volume id, no further mutating request is sent and a successful run
\* reports the resized volume, read under its new id: not None, and not a
\* volume of the old size.
C17_ResizeRefetch ==
    (mod = "storage" /\ Resized) =>
        /\ \A i, j \in LogIdx :
              (i < j /\ Sent(i, "PUT", "storages/{id}")) => ~IsMutating(log[j])
        /\ outcome = "exit" => (IsSome(reported) /\ Get(reported).size = task.size)


\* the paths on which one resource is read by its id
ByIdPaths == {"servers/{id}", "storages/{id}", "ips/{id}", "projects/{id}", "ssh-keys/{id}"}

\* the failures the get-by-id gateways end the run with
GatewayFailures ==
    {"Error getting server", "Error getting storage volume",
     "Unknown error retrieving floating IP", "error on attempt to GET for project",
     "error on attempt to GET for server", "error on attempt to GET for ssh key"}

\* C18: a read of one resource by its id that the API answers with 404
\* yields None: the gateway that sent it (get_server, get_storage, get_fip,
\* ProjectManager, ServerManager or SSHKeyManager get_by_id) never ends the
\* run with its failure.
C18_NotFoundIsNone ==
    (/\ log # << >>
     /\ Last(log).method = "GET" /\ Last(log).path \in ByIdPaths
     /\ Last(log).status = 404)
        => ~(outcome = "fail" /\ msg \in GatewayFailures)


\* the floating IP was looked up by its id and the API answered 403
FipLookup403 ==
    /\ mod = "floating_ip" /\ params.id # None
    /\ log # << >>
    /\ Last(log).method = "GET" /\ Last(log).path = "ips/{id}"
    /\ Last(log).status = 403

\* C19: a floating IP looked up by id and answered 403 is taken as not
\* found: the lookup does not fail, a run with state absent ends with
\* changed = False, and any other run goes on to the creation.
C19_RestrictedIsNotFound ==
    (FipLookup403 /\ pc # "run") =>
        /\ outcome # "fail" \/ msg # "Unknown error retrieving floating IP"
        /\ params.state = "absent" => (outcome = "exit" /\ ~changed)
        /\ params.state # "absent" => "create" \in planned


\* the remote resources the task's identity options locate
Located ==
    IF mod \in {"server", "storage"} THEN Find(task.id)
    ELSE IF mod \in {"floating_ip", "project"} /\ task.id # None THEN Find(task.id)
    ELSE IdentityMatches

\* an option is left out, or asks for the value v that is observed
SameOrUnset(k, v) == task[k] = None \/ task[k] = v

\* every option the task sets asks for what the one located resource r has
SetFieldsEqual(r) ==
    IF mod = "server"
    THEN /\ SameOrUnset("hostname", r.hostname) /\ SameOrUnset("tags", r.tags)
         /\ task.image = None \/ ApiImageName(task.image) = r.image
         /\ task.ssh_keys = None \/ ApiKeyIds(task.ssh_keys) = r.ssh_keys
         /\ task.user_data = None /\ task.os_partition_size = None
         /\ r.status = "deployed"
    ELSE IF mod = "storage"
    THEN /\ SameOrUnset("size", r.size) /\ SameOrUnset("description", r.description)
         /\ SameOrUnset("target_server_id", r.attached_to)
         /\ params.state = "attached" => r.attached_to # None
         /\ params.state = "detached" => r.attached_to = None
    ELSE IF mod = "floating_ip"
    THEN /\ SameOrUnset("tags", r.tags)
         /\ task.ptr_record = None \/ ApiPtr(task.ptr_record) = r.ptr_record
         /\ task.a_record = None \/ ApiARecord(task.a_record) = r.a_record
         /\ SameOrUnset("target_server_id", r.targeted_to)
         /\ SameOrUnset("route_ip_id", r.routed_to)
    ELSE IF mod = "project"
    THEN SameOrUnset("name", r.name) /\ SameOrUnset("bgp", r.bgp)
    ELSE /\ SameOrUnset("id", r.id) /\ SameOrUnset("label", r.label)
         /\ SameOrUnset("public_key", r.key) /\ SameOrUnset("fingerprint", r.fingerprint)

\* the first run has read the one resource the task is about, has sent no
\* mutating request so far, and the task asks for nothing the resource lacks
EmptyPlan ==
    /\ mod \in ResourceModules /\ params.state # "absent"
    /\ run = 1 /\ MutatingLog = << >>
    /\ pc \notin {"init", "manager_init", "run"}
    /\ \A i \in LogIdx : log[i].status = 200
    /\ Len(Located) = 1
    /\ SetFieldsEqual(Located[1])

\* C20: when the resource exists and every option the task sets equals what
\* is observed, the run exits with changed = False without a mutating
\* request and, outside check mode, reports the observed resource.
C20_EmptyPlan ==
    EmptyPlan =>
        /\ outcome = "exit" /\ ~changed
        /\ ~check_mode => (IsSome(reported) /\ Get(reported).id = Located[1].id)


\* the first run of a task with an update in view has read the one resource
\* it locates and has sent no mutating request so far
Compared ==
    /\ params.state # "absent"
    /\ run = 1 /\ MutatingLog = << >>
    /\ pc \notin {"init", "manager_init", "run"}
    /\ \A i \in LogIdx : log[i].status = 200
    /\ Len(Located) = 1

\* an observed DNS record without its trailing separator / without the zone
WithoutDot(v) == IF v # None /\ PyEndsWith(v, ".") THEN PyDropLast(v) ELSE v
WithoutZone(v) == IF v = None THEN None ELSE PySplitHead(v, ZONE)

\* C21: for every observed ptr_record (None, empty, with or without the
\* trailing '.') and a_record (None, relative, fully qualified) the floating
\* IP diff completes without an error, and it names ptr_record / a_record
\* exactly when the task sets a value other than the observed one with the
\* trailing separator / the zone suffix removed.
C21_NormalizedComparison ==
    (mod = "floating_ip" /\ Compared) =>
        /\ outcome # "crash"
        /\ outcome # "crash" =>
              /\ "ptr_record" \in DOMAIN req.basic
                    <=> (task.ptr_record # None
                         /\ task.ptr_record # WithoutDot(Located[1].ptr_record))
              /\ "a_record" \in DOMAIN req.basic
                    <=> (task.a_record # None
                         /\ task.a_record # WithoutZone(Located[1].a_record))


\* the task asks to unattach a floating IP that is targeted to no server
UnattachUntargeted ==
    /\ mod = "floating_ip" /\ Compared
    /\ task.target_server_id = "0"
    /\ Located[1].targeted_to = "0"

EqualReprovisioning ==
    /\ mod = "server" /\ params.state # "absent"
    /\ run = 1 /\ pc \notin {"init", "run"}
    /\ Len(Find(task.id)) = 1
    /\ \A i \in LogIdx : log[i].method = "POST" => log[i].status # 200
    /\ task.image # None \/ task.ssh_keys # None
    /\ task.image = None \/ ApiImageName(task.image) = Find(task.id)[1].image
    /\ task.ssh_keys = None \/ ApiKeyIds(task.ssh_keys) = Find(task.id)[1].ssh_keys
    /\ task.user_data = None /\ task.os_partition_size = None

\* C23: for an existing server, an image equal to the slug of the image it
\* runs and ssh_keys equal to the keys it has add nothing to the reinstall
\* diff: the run neither asks for allow_reinstall nor sends a reinstall, and
\* with no other option set it reports changed = False.
C23_EqualNoReinstall ==
    EqualReprovisioning =>
        /\ "reinstall" \notin planned
        /\ msg # "The options you've selected require server reinstalling."
        /\ \A i \in LogIdx : ~Sent(i, "POST", "servers/{id}/actions")
        /\ (task.hostname = None /\ task.tags = None /\ outcome = "exit") => ~changed


\* the task sets user_data or os_partition_size and the run has found the
\* server it names
UntrackedSet ==
    /\ mod = "server" /\ params.state # "absent"
    /\ task.user_data # None \/ task.os_partition_size # None
    /\ \E i \in LogIdx :
          /\ Sent(i, "GET", "servers/{id}") /\ Accepted(i, 200)
          /\ \A k \in 1..(i - 1) : log[k].path = "user"

UserChecks == {i \in LogIdx : log[i].path = "user"}

\* C25: the first request of a run is GET user; when it is not answered 200
\* the run fails and sends nothing else; the credentials are checked exactly
\* once in a run.
C25_CredentialCheckFirst ==
    log # << >> =>
        /\ log[1].method = "GET" /\ log[1].path = "user"
        /\ log[1].status # 200 => (Len(log) = 1 /\ outcome = "fail")
        /\ Cardinality(UserChecks) = 1


\* C26: within one run no mutating request is sent twice: no two mutating
\* requests of the run have the same method and the same URL, whether the
\* first of them was accepted or rejected.
C26_NoRetry ==
    \A i, j \in LogIdx :
        (i < j /\ IsMutating(log[i]) /\ IsMutating(log[j])) =>
            ~(/\ log[i].method = log[j].method
              /\ log[i].path = log[j].path
              /\ log[i].id = log[j].id)

C26_Witness ==
    /\ mod = "sshkey" /\ Terminal
    /\ Len(MutatingLog) = 2
    /\ Rejected(MutatingLog[1])
    /\ MutatingLog[1].id # MutatingLog[2].id


\* the resource the task is about does not exist
Missing ==
    IF mod \in {"server", "storage"} THEN task.id = None \/ ~Exists(task.id)
    ELSE IF mod = "project"
    THEN IF task.id # None THEN ~Exists(task.id)
         ELSE project_lookup(params) = "team" => IdentityMatches = << >>
    ELSE Located = << >>

\* the fields a creation needs, by module
CreationFields ==
    IF mod = "server" THEN {"project_id", "region", "plan"}
    ELSE IF mod = "storage" THEN {"project_id", "region", "size"}
    ELSE IF mod = "floating_ip" THEN {"project_id", "region_slug"}
    ELSE IF mod = "project" THEN {"name", "team_id"}
    ELSE {"label", "public_key"}

\* the messages of the validation of a creation
CreationValidationFailures ==
    {"Missing required options for server creation.",
     "project_id, region and size are required parameters for storage volume creation",
     "project_id and region_slug are required for creating SSH keys.",
     "name and team_id are required for creating projects.",
     "Label and public key are required for creating SSH keys."}

\* the first run has looked for the resource, which does not exist, and the
\* task lacks a field its creation needs
CreationUnderspecified ==
    /\ mod \in ResourceModules /\ params.state # "absent"
    /\ run = 1 /\ pc \notin {"init", "manager_init", "run"}
    /\ \A i \in LogIdx : log[i].status \in {200, 404}
    /\ Missing
    /\ \E k \in CreationFields : task[k] = None

\* C27: when the resource does not exist, the state is not absent and a field
\* the creation needs is missing, the run ends in the validation failure of
\* the creation, in check mode too, and no request to create is sent.
C27_CreationValidation ==
    CreationUnderspecified =>
        /\ outcome = "fail" /\ msg \in CreationValidationFailures
        /\ MutatingLog = << >>


\* the task names a project by its id and by its team and name as well
BothIdentities ==
    /\ mod = "project"
    /\ task.id # None /\ task.team_id # None /\ task.name # None

KeyMatches(r) ==
    \E k \in SSH_IDENTIFYING_KEYS : task[k[2]] # None /\ r[k[1]] = task[k[2]]

\* the key of the account that has the id d, deleted meanwhile or not
KeyById(d) ==
    LET all == CHOOSE r \in SshkeyRemotes : \A q \in SshkeyRemotes : Len(q) <= Len(r)
    IN SelectSeq(all, LAMBDA r : r.id = d)[1]

\* the keys of the account have been listed
KeysListed == \E i \in LogIdx : Sent(i, "GET", "ssh-keys") /\ Accepted(i, 200)

InfoModules == {"project_info", "server_info"}

\* the remote resources an info run fetches: the one with the id, or all
Fetched == IF task.id # None THEN Find(task.id) ELSE remote

\* the slug of the image with the full name the API reports
SlugOf(name) ==
    IF name = "unknown" THEN "unknown"
    ELSE CHOOSE slug \in {"img1", "img2"} : ApiImageName(slug) = name

\* a fetched resource the way the info module reports it
Shown(x) ==
    IF mod = "project_info" THEN normalize_project(x)
    ELSE [normalize_server(x) EXCEPT !.image = SlugOf(x.image)]

\* every option the task sets equals the field of the resource; every tag
\* the task gives is on the resource
InfoMatches(x) ==
    IF mod = "project_info"
    THEN /\ task.id = None \/ task.id = x.id
         /\ task.name = None \/ task.name = x.name
         /\ task.bgp = None \/ task.bgp = x.bgp
    ELSE /\ task.id = None \/ task.id = x.id
         /\ task.hostname = None \/ task.hostname = x.hostname
         /\ task.image = None \/ ApiImageName(task.image) = x.image
         /\ task.tags = None \/ TagsOf(task.tags) \subseteq TagsOf(x.tags)

\* C30: an info module run sends no mutating request and never reports a
\* change; a run that ends with a result returns exactly the fetched
\* resources that match every option the task sets, and a lookup by an id
\* that does not exist returns the empty list.
C30_InfoReadOnlyFilter ==
    mod \in InfoModules =>
        /\ MutatingLog = << >>
        /\ ~changed
        /\ outcome = "exit" =>
              reported = [i \in 1..Len(SelectSeq(Fetched, InfoMatches)) |->
                             Shown(SelectSeq(Fetched, InfoMatches)[i])]
        /\ (/\ Terminal /\ task.id # None /\ ~Exists(task.id)
            /\ \A i \in LogIdx : log[i].status \in {200, 404})
              => (outcome = "exit" /\ reported = << >>)

CharsOf(population) == {population[i] : i \in 1..Len(population)}
Clamped(n) == IF n < 8 THEN 8 ELSE IF n > 24 THEN 24 ELSE n
PasswordMade == mod = "generate_password" /\ outcome = "return"

\* C31: generate_password(length) returns, for every integer length, a
\* string whose length is length clamped to [8, 24], with a lowercase
\* letter, an uppercase letter that is not the first character, a digit that
\* is not the last character, and only ASCII letters and digits.
C31_GeneratedPassword ==
    PasswordMade =>
        /\ Len(returned) = Clamped(task.length)
        /\ \E i \in 1..Len(returned) : returned[i] \in CharsOf(ascii_lowercase)
        /\ \E i \in 2..Len(returned) : returned[i] \in CharsOf(ascii_uppercase)
        /\ \E i \in 1..(Len(returned) - 1) : returned[i] \in CharsOf(digits)
        /\ \A i \in 1..Len(returned) :
              returned[i] \in CharsOf(ascii_lowercase) \cup CharsOf(ascii_uppercase)
                              \cup CharsOf(digits)

\* a length above the range was asked for and the remaining characters hold
\* no uppercase letter and no digit
C31_Witness ==
    /\ PasswordMade
    /\ task.length > 24 /\ Len(returned) = 24
    /\ \A i \in 4..Len(returned) : returned[i] \in CharsOf(ascii_lowercase)

SendReturned == mod = "send_request" /\ pc = "done"
Is2xx(status) == 200 <= status /\ status < 300

C33_BasicUpdateOnlyOnDiff ==
    mod = "storage" =>
        \A i \in LogIdx :
            Sent(i, "PUT", "storages/{id}") =>
                /\ "basic" \in planned
                /\ DOMAIN log[i].payload # {}

AttachedNoTarget ==
    mod = "storage" /\ params.state = "attached" /\ params.target_server_id = None
DetachedWithTarget ==
    mod = "storage" /\ params.state = "detached" /\ params.target_server_id # None
\* the volume the task names exists remotely and is attached to a server
VolumeAttached ==
    \E i \in 1..Len(remote) : remote[i].id = params.id /\ remote[i].attached_to # None
AnsweredWithoutError == \A i \in LogIdx : NoErrorStatus(log[i].status)

C35_DeleteTargetsResolved ==
    (mod \in {"floating_ip", "storage"} /\ params.state = "absent") =>
        \A i \in LogIdx :
            (IsDelete(log[i]) \/ IsDetach(log[i])) =>
                (IsSome(res) /\ log[i].id = Get(res).id)

\* C36: a check-mode run reports a change exactly when the real run of the
\* same task against the same remote state ends successfully with a change,
\* and fails exactly when the real run fails on validation; so a check-mode
\* run of a task that needs a reinstall without allow_reinstall, which the
\* real run refuses, does not exit with changed=True.
C36_CheckModeAgrees ==
    (/\ mod = "server" /\ check_mode /\ Terminal
     /\ \E i \in LogIdx : Sent(i, "GET", "servers/{id}") /\ Accepted(i, 200)
     /\ "reinstall" \in planned /\ params.allow_reinstall # "True")
        => ~(outcome = "exit" /\ changed)

\* C37: outside check mode, a run that exits with changed=False has sent no
\* mutating request, and a run that exits with changed=True has sent at
\* least one mutating request that the API accepted.
C37_ChangedMatchesSent ==
    (mod \in ResourceModules /\ ~check_mode /\ outcome = "exit") =>
        /\ ~changed => MutatingLog = << >>
        /\ changed => \E i \in LogIdx : IsMutating(log[i]) /\ ~Rejected(log[i])

\* a volume was deleted: the run exits with changed=True after an accepted
\* DELETE and nothing else
C37_Witness ==
    /\ mod = "storage" /\ ~check_mode /\ outcome = "exit" /\ changed
    /\ Len(MutatingLog) = 1
    /\ IsDelete(MutatingLog[1]) /\ MutatingLog[1].status = 204

Waiting == pc \in {"server_wait", "manager_wait"}

\* max(1, ceil(timeout / POLL_INTERVAL))
MaxPolls(timeout) ==
    LET c == 0 - ((0 - timeout) \div POLL_INTERVAL)
    IN IF c < 1 THEN 1 ELSE c

\* a poll is sent only when fewer than MaxPolls polls were made
PollBound ==
    mod \in {"server", "server_manager"} =>
        /\ time_passed <= POLL_INTERVAL * MaxPolls(params.active_timeout)
        /\ (Waiting /\ IsSome(waited) /\ Get(waited).status # "deployed")
              => time_passed < POLL_INTERVAL * MaxPolls(params.active_timeout)

\* the wait for a server that is deployed sends nothing
NoPollWhenDeployed ==
    (Waiting /\ IsSome(waited) /\ Get(waited).status = "deployed")
        => (log' = log /\ time_passed' = time_passed)

\* C38: when every remote request returns, every run ends and stays ended in
\* one outcome (exit, fail, or an uncaught exception); the wait for an
\* active server makes at most max(1, ceil(timeout/10)) polls for any
\* active_timeout, zero and negative values included, and no poll when the
\* server is already deployed.
C38_Termination ==
    /\ <>[]Terminal
    /\ []PollBound
    /\ [][NoPollWhenDeployed]_vars

\* a wait with a timeout of zero has ended after its one poll
C38_Witness ==
    /\ mod = "server" /\ params.active_timeout = 0
    /\ TimedOut /\ time_passed = POLL_INTERVAL

InventoryCalled == mod = "inventory" /\ pc = "call"

\* C39: InventoryModule.parse with caching enabled, the cache allowed and
\* the key present takes the servers from the cache and sends no request;
\* with the key missing or a refresh requested it sends exactly one request
\* and stores a non-empty result under the key; with caching disabled it
\* neither reads nor writes the cache and sends exactly one request.
C39_CacheProtocol ==
    [][InventoryCalled =>
          /\ (task.cache_option /\ task.cache /\ IsSome(inv_cache)) =>
                /\ log' = log
                /\ res' = inv_cache
                /\ UNCHANGED inv_cache
                /\ cache_ops' = <<"read">>
          /\ (task.cache_option /\ (~task.cache \/ ~IsSome(inv_cache))) =>
                /\ Len(log') = 1 /\ log'[1].method = "GET"
                /\ (log'[1].status = 200 /\ remote # << >>) =>
                      (inv_cache' = Opt(remote) /\ res' = Opt(remote)
                       /\ Last(cache_ops') = "write")
                /\ (log'[1].status # 200 \/ remote = << >>) => UNCHANGED inv_cache
          /\ ~task.cache_option =>
                /\ Len(log') = 1 /\ log'[1].method = "GET"
                /\ cache_ops' = << >>
                /\ UNCHANGED inv_cache]_vars

\* the key was missing: the cache was read, one request was sent and its
\* result was stored
C39_Witness ==
    /\ mod = "inventory" /\ outcome = "return"
    /\ task.cache_option /\ task.cache
    /\ cache_ops = <<"read", "write">>
    /\ Len(log) = 1 /\ inv_cache = Opt(remote) /\ remote # << >>

====
